---- MODULE Spec2Model ----
(***************************************************************************)
(* Verification model of the vWTMonitor remote-execution engine:           *)
(*   - LogCapture      (vwt_monitor/log_capture.py, ztw_manager/...)       *)
(*   - SSHManager      (vwt_monitor/ssh_manager.py)                        *)
(*   - ConnectionPool  (vwt_monitor/connection_pool.py)                    *)
(*   - ChannelManager  (vwt_monitor/channel_manager.py, ztw_manager/...)   *)
(* Each component has its own specification (SpecLog, SpecMgr, SpecPool,   *)
(* and SpecChan, SpecDir, SpecFetch for the channel manager under          *)
(* different callers and chains); the variables of the other components    *)
(* stay at their constructed values.                                       *)
(***************************************************************************)
EXTENDS Integers, Sequences, FiniteSets, TLC

(***************************************************************************)
(* Bounds of the model                                                     *)
(***************************************************************************)
\* hosts with a capture loop
LogHosts == {"h1", "h2"}
\* config.log_capture.buffer_size used by the model
buffer_size == 2
\* lines the remote log files deliver in one run, all hosts together
MaxLines == 4

\* config.max_parallel used by the model
max_parallel == 2
\* fan-out calls one SSHManager serves in one run
MaxCalls == 2
\* close() calls on one SSHManager in one run
MaxCloses == 2
\* start_log_capture() calls on one SSHManager in one run
MaxStarts == 2
MaxStops == 3
\* intervals in an iperf3 result file
MaxIntervals == 3
\* iterations of a probe loop before the duration of the test is over
MaxProbes == 3

\* max_connections of the pool used by the model
max_connections == 1
\* max_idle_time of the pool, in clock ticks
max_idle_time == 0
\* last instant of the pool's clock
MaxTime == 2
\* SSH clients the pool's callers create in one run
MaxClients == 3

\* poll_iterations of fetch_output used by the model
poll_iterations == 2
\* chunks of output the remote shells write in one run
MaxChunks == 2
\* channels the channel manager opens in one run
MaxChannels == 2
\* chains each caller thread submits in one run
MaxChains == 1

Levels == {"INFO", "ERROR"}
NoOne == "none"
\* config.hosts
MgrHosts == <<"h1", "h2", "h3">>
\* the fan-out operations of SSHManager
FanOutOps == {"execute", "chain", "interactive", "upload", "download"}

VARIABLES
    \* ---- LogCapture ----
    logVariant,        \* "vwt": vwt_monitor.LogCapture, "ztw": ztw_manager.LogCapture
    log_buffer,        \* self.log_buffer: sequence of LogEntry
    arrivals,          \* number of entries appended so far (arrival order of an entry)
    linesRead,         \* lines delivered by the remote tails so far
    stats_total,       \* self.stats['total_entries']
    entries_by_host,   \* self.stats['entries_by_host']
    entries_by_level,  \* self.stats['entries_by_level']
    capture_threads,   \* keys of self.capture_threads / self.active_captures
    stop_events,       \* hosts whose stop event is set
    cpc,               \* position of each host's capture thread
    centry,            \* the LogEntry a capture thread is ingesting
    ctmp,              \* value a capture thread has read from a counter
    logLock,           \* owner of LogCapture.lock (ztw only)
    \* ---- SSHManager ----
    metrics_attr,      \* TRUE iff the manager object has a `metrics` attribute
    executor_shutdown, \* self.executor has been shut down
    semaphore,         \* free permits of self.semaphore
    call,              \* the fan-out call in progress: phase, op, target hosts
    calls,             \* fan-out calls started so far
    wpc,               \* position of the worker of each target host (by index)
    wres,              \* the result each worker returned
    results,           \* indices whose result the call has collected
    mclose,            \* SSHManager.close: calls made, outcome, state left behind
    \* ---- ConnectionPool / JumphostConnectionPool ----
    poolKind,          \* "direct": ConnectionPool, "jumphost": JumphostConnectionPool
    connections,       \* self._connections: the ConnectionInfo entries, one per key
    clients,           \* state of every SSHClient created: unused, alive, dead, closed
    now,               \* datetime.now(), in ticks
    poolLock,          \* owner of self._lock
    stop_health_check, \* self._stop_health_check is set
    jumphost_connection, \* self.jumphost_connection: a client or none
    ppc,               \* position of each caller thread inside the pool
    preq,              \* the connection key and endpoint of the thread's Get
    attempt,           \* attempt number of the running _create_connection
    connects,          \* client.connect calls made by the thread's current Get
    \* ---- ChannelManager ----
    chanVariant,       \* "vwt": vwt_monitor.ChannelManager, "ztw": ztw_manager's
    kthreads,          \* the caller threads of this run
    kmenu,             \* the chains the callers submit in this run
    kchunks,           \* the kinds of output the remote shells write in this run
    channels,          \* self.channels: host -> channel (0: no entry)
    channel_info,      \* self.channel_info: host -> tracked state
    chan_state,        \* every channel object: unused, open, closed
    chan_buf,          \* output the remote shell has written and nobody has read
    chan_emitted,      \* chunks the remote shells have written so far
    chan_exit,         \* exit status of the channel (-1: not ready)
    kpc,               \* position of each caller thread
    khost,             \* host of the thread's chain
    kcmds,             \* commands of the thread's chain
    kidx,              \* index of the command being executed
    kchan,             \* channel the chain runs on
    kresults,          \* results collected by the chain so far
    ksent,             \* commands the chain has sent so far
    kout,              \* fetch_output: accumulated output
    kiter,             \* fetch_output: iterations
    kfired,            \* fetch_output: expect responses sent for this command
    kerr,              \* fetch_output: an exception was caught
    kruns,             \* chains the thread has submitted
    kmode,             \* the call the thread is in: "chain" or "interactive"
    \* ---- TrafficManager ----
    probe,             \* protocol of the running traffic test
    probe_pc,          \* position of the probe loop
    probes,            \* iterations of the probe loop so far
    packets_sent,      \* packets_sent of the running test
    packets_received,  \* packets_received of the running test
    packets,           \* the PacketMetrics block of the test's result
    connection_times,  \* number of connect times the tcp loop has recorded
    connection_metrics, \* the ConnectionMetrics block of the test's result
    \* ---- SSHManager.start_log_capture ----
    log_capture_enabled, \* config.log_capture.enabled (self.log_capture is set)
    slc,               \* start_log_capture calls made and how the last one ended
    \* ---- IperfManager.parse_iperf_file ----
    iperf_file,        \* the parsed result file and the arguments of the call
    iperf_summary,     \* the summary parse_iperf_file returned
    \* ---- Config and SSHManager.__init__ ----
    config,            \* the Config object and how its last validation ended
    admission,         \* the executor and semaphore SSHManager.__init__ made from it
    \* ---- IperfManager start/stop by PID file ----
    iperf_proc,        \* the iperf3 process of the client and of the server
    pid_file,          \* whether the PID file of each is on the remote host
    stops,             \* Stop calls made for each since it was last started
    \* ---- TrafficManager.run_traffic_test and HostWorkload.send_traffic ----
    traffic_call,      \* the call made and its arguments
    traffic_results,   \* the results dictionary of run_traffic_test, by test id
    traffic_returned,  \* the result send_traffic returned
    \* ---- SSHManager: channel managers per host ----
    channel_managers,  \* self.channel_managers: host -> the client its manager holds (0: none)
    chain_client       \* host -> the client a running chain uses (0: no chain)

logVars == <<logVariant, log_buffer, arrivals, linesRead, stats_total,
             entries_by_host, entries_by_level, capture_threads, stop_events,
             cpc, centry, ctmp, logLock>>

mgrVars == <<metrics_attr, executor_shutdown, semaphore, call, calls, wpc,
             wres, results, mclose>>

poolVars == <<poolKind, connections, clients, now, poolLock, stop_health_check,
              jumphost_connection, ppc, preq, attempt, connects>>

chanVars == <<chanVariant, kthreads, kmenu, kchunks, channels, channel_info, chan_state,
              chan_buf, chan_emitted, chan_exit, kpc, khost, kcmds, kidx, kchan,
              kresults, ksent, kout, kiter, kfired, kerr, kruns, kmode>>

trafficVars == <<probe, probe_pc, probes, packets_sent, packets_received, packets,
                 connection_times, connection_metrics>>

startVars == <<log_capture_enabled, slc>>

iperfVars == <<iperf_file, iperf_summary>>

configVars == <<config, admission>>

pidVars == <<iperf_proc, pid_file, stops>>

runVars == <<traffic_call, traffic_results, traffic_returned>>

sessVars == <<channel_managers, chain_client>>

auxVars == <<startVars, iperfVars, configVars, pidVars, runVars, sessVars>>

vars == <<logVars, mgrVars, poolVars, chanVars, trafficVars, auxVars>>

\* the variables of the other components, for each component
notLogVars == <<mgrVars, poolVars, chanVars, trafficVars, auxVars>>
notMgrVars == <<logVars, poolVars, chanVars, trafficVars, auxVars>>
notPoolVars == <<logVars, mgrVars, chanVars, trafficVars, auxVars>>
notChanVars == <<logVars, mgrVars, poolVars, trafficVars, auxVars>>
notTrafficVars == <<logVars, mgrVars, poolVars, chanVars, auxVars>>
notAuxVars == <<logVars, mgrVars, poolVars, chanVars, trafficVars>>

(***************************************************************************)
(* LogCapture                                                              *)
(***************************************************************************)
NoEntry == [host |-> NoOne, level |-> NoOne, n |-> 0]

\* LogCapture.__init__
InitLog(variant) ==
    /\ logVariant = variant
    /\ log_buffer = <<>>
    /\ arrivals = 0
    /\ linesRead = 0
    /\ stats_total = 0
    /\ entries_by_host = [h \in LogHosts |-> 0]
    /\ entries_by_level = [l \in Levels |-> 0]
    /\ capture_threads = {}
    /\ stop_events = {}
    /\ cpc = [h \in LogHosts |-> "none"]
    /\ centry = [h \in LogHosts |-> NoEntry]
    /\ ctmp = [h \in LogHosts |-> 0]
    /\ logLock = NoOne

\* LogCapture.start_capture: one capture thread per host
start_capture(h) ==
    /\ h \notin capture_threads
    /\ cpc[h] = "none"
    /\ capture_threads' = capture_threads \cup {h}
    /\ stop_events' = stop_events \ {h}
    /\ cpc' = [cpc EXCEPT ![h] = "loop"]
    /\ UNCHANGED <<logVariant, log_buffer, arrivals, linesRead, stats_total,
                   entries_by_host, entries_by_level, centry, ctmp, logLock>>
    /\ UNCHANGED notLogVars

\* LogCapture.stop_capture: set the stop event, join(timeout=5), forget the thread
stop_capture(h) ==
    /\ h \in capture_threads
    /\ h \notin stop_events
    /\ stop_events' = stop_events \cup {h}
    /\ UNCHANGED <<logVariant, log_buffer, arrivals, linesRead, stats_total,
                   entries_by_host, entries_by_level, capture_threads,
                   cpc, centry, ctmp, logLock>>
    /\ UNCHANGED notLogVars

\* stop_capture after the join: the thread has exited and is forgotten
stop_capture_joined(h) ==
    /\ h \in capture_threads
    /\ h \in stop_events
    /\ cpc[h] = "exited"
    /\ capture_threads' = capture_threads \ {h}
    /\ cpc' = [cpc EXCEPT ![h] = "none"]
    /\ UNCHANGED <<logVariant, log_buffer, arrivals, linesRead, stats_total,
                   entries_by_host, entries_by_level, stop_events,
                   centry, ctmp, logLock>>
    /\ UNCHANGED notLogVars

\* _capture_logs: `while not stop_event.is_set()` finds the event set
capture_exit(h) ==
    /\ cpc[h] = "loop"
    /\ h \in stop_events
    /\ cpc' = [cpc EXCEPT ![h] = "exited"]
    /\ UNCHANGED <<logVariant, log_buffer, arrivals, linesRead, stats_total,
                   entries_by_host, entries_by_level, capture_threads,
                   stop_events, centry, ctmp, logLock>>
    /\ UNCHANGED notLogVars

\* _capture_logs: stdout.readline() returns a line; _should_process_line and
\* _parse_log_line decide whether it becomes a LogEntry and with which level
capture_readline(h) ==
    /\ cpc[h] = "loop"
    /\ h \notin stop_events
    /\ linesRead < MaxLines
    /\ linesRead' = linesRead + 1
    /\ \E passes \in BOOLEAN, l \in Levels :
          IF passes
          THEN /\ centry' = [centry EXCEPT ![h] = [host |-> h, level |-> l, n |-> 0]]
               /\ cpc' = [cpc EXCEPT ![h] =
                            IF logVariant = "ztw" THEN "lock" ELSE "append"]
          ELSE /\ l = "INFO"
               /\ UNCHANGED <<centry, cpc>>
    /\ UNCHANGED <<logVariant, log_buffer, arrivals, stats_total,
                   entries_by_host, entries_by_level, capture_threads,
                   stop_events, ctmp, logLock>>
    /\ UNCHANGED notLogVars

\* ztw _process_log_entry: `with self.lock:`
process_lock(h) ==
    /\ cpc[h] = "lock"
    /\ logLock = NoOne
    /\ logLock' = h
    /\ cpc' = [cpc EXCEPT ![h] = "append"]
    /\ UNCHANGED <<logVariant, log_buffer, arrivals, linesRead, stats_total,
                   entries_by_host, entries_by_level, capture_threads,
                   stop_events, centry, ctmp>>
    /\ UNCHANGED notLogVars

\* _process_log_entry: self.log_buffer.append(log_entry)
process_append(h) ==
    /\ cpc[h] = "append"
    /\ arrivals' = arrivals + 1
    /\ log_buffer' = Append(log_buffer, [centry[h] EXCEPT !.n = arrivals + 1])
    /\ cpc' = [cpc EXCEPT ![h] = "trim"]
    /\ UNCHANGED <<logVariant, linesRead, stats_total, entries_by_host,
                   entries_by_level, capture_threads, stop_events, centry,
                   ctmp, logLock>>
    /\ UNCHANGED notLogVars

\* a pop() that removes the newest entry instead of the oldest
PopNewest(buf) == SubSeq(buf, 1, Len(buf) - 1)

\* the list after self.log_buffer.pop(0)
PopOldest(buf) == Tail(buf)

\* _process_log_entry: if len(self.log_buffer) > buffer_size: self.log_buffer.pop(0)
process_trim(h) ==
    /\ cpc[h] = "trim"
    /\ log_buffer' = IF Len(log_buffer) > buffer_size
                     THEN PopOldest(log_buffer) ELSE log_buffer
    /\ cpc' = [cpc EXCEPT ![h] = "total_read"]
    /\ UNCHANGED <<logVariant, arrivals, linesRead, stats_total, entries_by_host,
                   entries_by_level, capture_threads, stop_events, centry,
                   ctmp, logLock>>
    /\ UNCHANGED notLogVars

\* self.stats['total_entries'] += 1, the load
process_total_read(h) ==
    /\ cpc[h] = "total_read"
    /\ ctmp' = [ctmp EXCEPT ![h] = stats_total]
    /\ cpc' = [cpc EXCEPT ![h] = "total_write"]
    /\ UNCHANGED <<logVariant, log_buffer, arrivals, linesRead, stats_total,
                   entries_by_host, entries_by_level, capture_threads,
                   stop_events, centry, logLock>>
    /\ UNCHANGED notLogVars

\* self.stats['total_entries'] += 1, the store; ztw leaves the lock here
process_total_write(h) ==
    /\ cpc[h] = "total_write"
    /\ stats_total' = ctmp[h] + 1
    /\ IF logVariant = "ztw"
       THEN /\ cpc' = [cpc EXCEPT ![h] = "loop"]
            /\ logLock' = NoOne
       ELSE /\ cpc' = [cpc EXCEPT ![h] = "by_host"]
            /\ UNCHANGED logLock
    /\ UNCHANGED <<logVariant, log_buffer, arrivals, linesRead,
                   entries_by_host, entries_by_level, capture_threads,
                   stop_events, centry, ctmp>>
    /\ UNCHANGED notLogVars

\* vwt: self.stats['entries_by_host'][host] += 1 (only this host's thread writes it)
process_by_host(h) ==
    /\ cpc[h] = "by_host"
    /\ entries_by_host' = [entries_by_host EXCEPT ![h] = @ + 1]
    /\ cpc' = [cpc EXCEPT ![h] = "level_read"]
    /\ UNCHANGED <<logVariant, log_buffer, arrivals, linesRead, stats_total,
                   entries_by_level, capture_threads, stop_events, centry,
                   ctmp, logLock>>
    /\ UNCHANGED notLogVars

\* vwt: self.stats['entries_by_level'][level] += 1, the load
process_level_read(h) ==
    /\ cpc[h] = "level_read"
    /\ ctmp' = [ctmp EXCEPT ![h] = entries_by_level[centry[h].level]]
    /\ cpc' = [cpc EXCEPT ![h] = "level_write"]
    /\ UNCHANGED <<logVariant, log_buffer, arrivals, linesRead, stats_total,
                   entries_by_host, entries_by_level, capture_threads,
                   stop_events, centry, logLock>>
    /\ UNCHANGED notLogVars

\* vwt: self.stats['entries_by_level'][level] += 1, the store
process_level_write(h) ==
    /\ cpc[h] = "level_write"
    /\ entries_by_level' = [entries_by_level EXCEPT ![centry[h].level] = ctmp[h] + 1]
    /\ cpc' = [cpc EXCEPT ![h] = "loop"]
    /\ UNCHANGED <<logVariant, log_buffer, arrivals, linesRead, stats_total,
                   entries_by_host, capture_threads, stop_events, centry,
                   ctmp, logLock>>
    /\ UNCHANGED notLogVars

LogStep ==
    \E h \in LogHosts :
        \/ start_capture(h)
        \/ stop_capture(h)
        \/ stop_capture_joined(h)
        \/ capture_exit(h)
        \/ capture_readline(h)
        \/ process_lock(h)
        \/ process_append(h)
        \/ process_trim(h)
        \/ process_total_read(h)
        \/ process_total_write(h)
        \/ process_by_host(h)
        \/ process_level_read(h)
        \/ process_level_write(h)


\* _capture_logs seen with the blocking read: `while not stop_event.is_set()`
\* finds the event clear and the thread enters stdout.readline(), which
\* returns only when the remote tail writes a line or the stream ends
capture_wait(h) ==
    /\ cpc[h] = "loop"
    /\ h \notin stop_events
    /\ cpc' = [cpc EXCEPT ![h] = "readline"]
    /\ UNCHANGED <<logVariant, log_buffer, arrivals, linesRead, stats_total,
                   entries_by_host, entries_by_level, capture_threads,
                   stop_events, centry, ctmp, logLock>>
    /\ UNCHANGED notLogVars

\* the remote tail writes a line: stdout.readline() returns it, and the line
\* is filtered, parsed and processed as in capture_readline
capture_line(h) ==
    /\ cpc[h] = "readline"
    /\ linesRead < MaxLines
    /\ linesRead' = linesRead + 1
    /\ \E passes \in BOOLEAN, l \in Levels :
          IF passes
          THEN /\ centry' = [centry EXCEPT ![h] = [host |-> h, level |-> l, n |-> 0]]
               /\ cpc' = [cpc EXCEPT ![h] =
                            IF logVariant = "ztw" THEN "lock" ELSE "append"]
          ELSE /\ l = "INFO"
               /\ cpc' = [cpc EXCEPT ![h] = "loop"]
               /\ UNCHANGED centry
    /\ UNCHANGED <<logVariant, log_buffer, arrivals, stats_total,
                   entries_by_host, entries_by_level, capture_threads,
                   stop_events, ctmp, logLock>>
    /\ UNCHANGED notLogVars

\* the remote stream ends (tail killed, session closed by the peer):
\* readline() returns '', on which ztw breaks out of the loop and vwt goes
\* round it
capture_eof(h) ==
    /\ cpc[h] = "readline"
    /\ cpc' = [cpc EXCEPT ![h] = IF logVariant = "ztw" THEN "exited" ELSE "loop"]
    /\ UNCHANGED <<logVariant, log_buffer, arrivals, linesRead, stats_total,
                   entries_by_host, entries_by_level, capture_threads,
                   stop_events, centry, ctmp, logLock>>
    /\ UNCHANGED notLogVars

\* the steps a capture thread takes by itself once it is scheduled
CaptureThreadStep(h) ==
    \/ capture_wait(h)
    \/ capture_exit(h)
    \/ process_lock(h)
    \/ process_append(h)
    \/ process_trim(h)
    \/ process_total_read(h)
    \/ process_total_write(h)
    \/ process_by_host(h)
    \/ process_level_read(h)
    \/ process_level_write(h)

\* the capture threads with the blocking read, their callers and the remote
\* side
CaptureStep ==
    \E h \in LogHosts :
        \/ start_capture(h)
        \/ stop_capture(h)
        \/ stop_capture_joined(h)
        \/ capture_line(h)
        \/ capture_eof(h)
        \/ CaptureThreadStep(h)

\* C37: once the stop signal of a host's capture loop is set, the loop
\* eventually closes its session and exits, also when the remote log file
\* produces no further lines after the signal.
C37_StopEndsCapture ==
    \A h \in LogHosts :
       (h \in stop_events /\ cpc[h] # "none") ~> (cpc[h] \in {"exited", "none"})

\* A reader (dashboard, export, statistics) can look at the buffer: the vwt
\* readers take no lock, the ztw readers take LogCapture.lock first.
LogObservable == logVariant = "vwt" \/ logLock = NoOne

\* no thread stands between the append of an entry and the length check
IngestionsComplete == \A h \in LogHosts : cpc[h] # "trim"

\* the arrival numbers of the buffered entries, oldest first
BufferArrivals == [i \in 1..Len(log_buffer) |-> log_buffer[i].n]

\* C8: whenever a reader can observe the ring buffer, also in the middle of an
\* ingestion and with several capture loops running, it holds at most
\* buffer_size entries.
C8_RingBufferBound == LogObservable => Len(log_buffer) <= buffer_size

NoIngestion == \A h \in LogHosts : cpc[h] \in {"none", "loop", "exited"}

RECURSIVE SumOver(_, _)
\* the sum of the counters f[k], k in keys
SumOver(f, keys) ==
    IF keys = {} THEN 0
    ELSE LET k == CHOOSE x \in keys : TRUE
         IN  f[k] + SumOver(f, keys \ {k})

\* C21: whenever no ingestion is in progress, the total, the sum of the
\* per-host counters and the sum of the per-level counters all equal the number
\* of entries ingested, whatever the interleaving of the capture loops.
C21_CountersCountEveryEntry ==
    (logVariant = "vwt" /\ NoIngestion) =>
        /\ stats_total = arrivals
        /\ SumOver(entries_by_host, LogHosts) = arrivals
        /\ SumOver(entries_by_level, Levels) = arrivals

(***************************************************************************)
(* SSHManager: fan-out under the admission semaphore                       *)
(***************************************************************************)
WorkerIds == 1..Len(MgrHosts)
IdleCall == [phase |-> "idle", op |-> NoOne, n |-> 0, error |-> NoOne]

\* the semaphore created with one permit too many
SemaphoreOffByOne == max_parallel + 1

\* SSHManager.__init__: threading.Semaphore(config.max_parallel)
SemaphorePermits == max_parallel

\* SSHManager.__init__. The assignment of self.metrics is commented out in the
\* constructor while every fan-out still uses it: the attribute is there only
\* when the embedding program sets it, so both cases are initial states.
InitMgr(hasMetrics) ==
    /\ metrics_attr = hasMetrics
    /\ executor_shutdown = FALSE
    /\ semaphore = SemaphorePermits
    /\ call = IdleCall
    /\ calls = 0
    /\ wpc = [i \in WorkerIds |-> "none"]
    /\ wres = [i \in WorkerIds |-> NoOne]
    /\ results = {}
    /\ mclose = [n |-> 0, raised |-> FALSE, first |-> <<>>, last |-> <<>>]

\* execute_command / execute_chain_commands / execute_interactive_commands /
\* upload_file / download_file, up to the metrics bookkeeping: the call takes the
\* first n configured hosts as targets; upload raises FileNotFoundError for a
\* missing local file, and self.metrics raises AttributeError when absent
fanout_call(op, n, localFileExists) ==
    /\ call.phase = "idle"
    /\ calls < MaxCalls
    /\ calls' = calls + 1
    /\ wpc' = [i \in WorkerIds |-> "none"]
    /\ wres' = [i \in WorkerIds |-> NoOne]
    /\ results' = {}
    /\ call' = [phase |-> IF op = "upload" /\ ~localFileExists THEN "raised"
                          ELSE IF ~metrics_attr THEN "raised"
                          ELSE "submit",
                op |-> op, n |-> n,
                error |-> IF op = "upload" /\ ~localFileExists THEN "FileNotFoundError"
                          ELSE IF ~metrics_attr THEN "AttributeError"
                          ELSE NoOne]
    /\ UNCHANGED <<metrics_attr, executor_shutdown, semaphore, mclose>>
    /\ UNCHANGED notMgrVars

\* `with self.executor as executor: executor.submit(...)` for the next host; a
\* shut down executor raises RuntimeError
fanout_submit ==
    /\ call.phase = "submit"
    /\ \E i \in 1..call.n :
          /\ wpc[i] = "none"
          /\ \A j \in 1..(i - 1) : wpc[j] # "none"
          /\ IF executor_shutdown
             THEN /\ call' = [call EXCEPT !.phase = "raised", !.error = "RuntimeError"]
                  /\ UNCHANGED wpc
             ELSE /\ wpc' = [wpc EXCEPT ![i] = "queued"]
                  /\ UNCHANGED call
    /\ UNCHANGED <<metrics_attr, executor_shutdown, semaphore, calls, wres, results>>
    /\ UNCHANGED mclose
    /\ UNCHANGED notMgrVars

\* a worker that has been submitted, finished or not
WorkerSubmitted(i) == wpc[i] # "none"

\* the future of a worker is done: what shutdown(wait=True) and as_completed
\* wait for
WorkerFinished(i) == wpc[i] = "done"

\* leaving `with self.executor`: ThreadPoolExecutor.__exit__ is
\* shutdown(wait=True), which returns when every submitted worker has finished
executor_exit ==
    /\ call.phase = "submit"
    /\ \A i \in 1..call.n : WorkerFinished(i)
    /\ executor_shutdown' = TRUE
    /\ call' = [call EXCEPT !.phase = "collect"]
    /\ UNCHANGED <<metrics_attr, semaphore, calls, wpc, wres, results>>
    /\ UNCHANGED mclose
    /\ UNCHANGED notMgrVars

\* `for future in as_completed(futures)`: one more result is appended
fanout_collect ==
    /\ call.phase = "collect"
    /\ \E i \in (1..call.n) \ results :
          /\ WorkerFinished(i)
          /\ results' = results \cup {i}
    /\ UNCHANGED <<metrics_attr, executor_shutdown, semaphore, call, calls, wpc, wres>>
    /\ UNCHANGED mclose
    /\ UNCHANGED notMgrVars

\* `return results`
fanout_return ==
    /\ call.phase = "collect"
    /\ results = 1..call.n
    /\ call' = [call EXCEPT !.phase = "returned"]
    /\ UNCHANGED <<metrics_attr, executor_shutdown, semaphore, calls, wpc, wres, results>>
    /\ UNCHANGED mclose
    /\ UNCHANGED notMgrVars

\* the caller goes on after a return or an exception
fanout_done ==
    /\ call.phase \in {"returned", "raised"}
    /\ \A i \in WorkerIds : wpc[i] \in {"none", "done"}
    /\ call' = IdleCall
    /\ UNCHANGED <<metrics_attr, executor_shutdown, semaphore, calls, wpc, wres, results>>
    /\ UNCHANGED mclose
    /\ UNCHANGED notMgrVars

\* threading.Semaphore.acquire: blocks while no permit is free
CanAcquire(permits) == permits > 0

\* _execute_*_on_host: `with self.semaphore:` entered. The executor's own
\* thread limit is not relied upon: a submitted worker may start at any time.
worker_acquire(i) ==
    /\ wpc[i] = "queued"
    /\ CanAcquire(semaphore)
    /\ semaphore' = semaphore - 1
    /\ wpc' = [wpc EXCEPT ![i] = "running"]
    /\ UNCHANGED <<metrics_attr, executor_shutdown, call, calls, wres, results>>
    /\ UNCHANGED mclose
    /\ UNCHANGED notMgrVars

\* _execute_*_on_host: the per-host task ends (result built, or an exception
\* caught by the worker and turned into a failed result); leaving the `with`
\* block releases the permit on both paths
worker_release(i, outcome) ==
    /\ wpc[i] = "running"
    /\ semaphore' = semaphore + 1
    /\ wpc' = [wpc EXCEPT ![i] = "done"]
    /\ wres' = [wres EXCEPT ![i] = outcome]
    /\ UNCHANGED <<metrics_attr, executor_shutdown, call, calls, results>>
    /\ UNCHANGED mclose
    /\ UNCHANGED notMgrVars

\* what close() is meant to leave behind: capture loops, channels, pool,
\* health-check thread, executor
CloseState ==
    <<capture_threads, stop_events, channels, channel_info, chan_state,
      connections, clients, stop_health_check, executor_shutdown>>

\* SSHManager.close, called between fan-outs: the stop event of every capture
\* is set and the capture forgotten after the join; every channel is closed and
\* dropped; the health check is stopped and the pool cleared; then
\* self.metrics.stop_monitoring() raises AttributeError when the manager has no
\* metrics attribute, and only otherwise is the executor shut down
close ==
    /\ call.phase = "idle"
    /\ mclose.n < MaxCloses
    /\ poolLock = NoOne
    /\ stop_events' = stop_events \cup capture_threads
    /\ capture_threads' = {}
    /\ chan_state' = [c \in DOMAIN chan_state |->
                        IF \E h \in DOMAIN channels : channels[h] = c
                        THEN "closed" ELSE chan_state[c]]
    /\ channels' = [h \in DOMAIN channels |-> 0]
    /\ channel_info' = [h \in DOMAIN channels |->
                          IF channels[h] # 0
                          THEN [present |-> FALSE, current_directory |-> <<"None">>]
                          ELSE channel_info[h]]
    /\ stop_health_check' = TRUE
    /\ clients' = [c \in DOMAIN clients |->
                     IF \E i \in connections : i.client = c THEN "closed"
                     ELSE clients[c]]
    /\ connections' = {}
    /\ executor_shutdown' = (executor_shutdown \/ metrics_attr)
    /\ mclose' = [n |-> mclose.n + 1,
                  raised |-> ~metrics_attr,
                  first |-> IF mclose.n = 0 THEN CloseState' ELSE mclose.first,
                  last |-> CloseState']
    /\ UNCHANGED <<metrics_attr, semaphore, call, calls, wpc, wres, results>>
    /\ UNCHANGED <<logVariant, log_buffer, arrivals, linesRead, stats_total,
                   entries_by_host, entries_by_level, cpc, centry, ctmp, logLock>>
    /\ UNCHANGED <<poolKind, now, poolLock, jumphost_connection, ppc, preq,
                   attempt, connects>>
    /\ UNCHANGED <<chanVariant, kthreads, kmenu, kchunks, chan_buf, chan_emitted,
                   chan_exit, kpc, khost, kcmds, kidx, kchan, kresults, ksent,
                   kout, kiter, kfired, kerr, kruns, kmode>>
    /\ UNCHANGED <<trafficVars, auxVars>>

\* workers that hold a permit and run their per-host task
InFlight == {i \in WorkerIds : wpc[i] = "running"}

\* C1: at every instant of a fan-out the number of workers that hold a permit
\* and run their per-host task is at most max_parallel.
C1_ConcurrencyBound == Cardinality(InFlight) <= max_parallel

\* C1 witness: max_parallel workers are in flight while a further submitted
\* worker waits for a permit
C1_Witness ==
    /\ Cardinality(InFlight) = max_parallel
    /\ \E i \in WorkerIds : wpc[i] = "queued"
    /\ semaphore = 0

\* C11: a second close() raises nothing and leaves the state (capture loops,
\* channels, connections, background threads, executor) exactly as the first
\* call left it.
C11_CloseIdempotent ==
    mclose.n >= 2 => (~mclose.raised /\ mclose.last = mclose.first)

\* the fan-out has ended for a reason other than the caller's missing local file
FanOutEnded ==
    /\ call.phase \in {"returned", "raised"}
    /\ call.error # "FileNotFoundError"

\* C12: a fan-out raises nothing and returns exactly one result per target
\* host, a failed one for each host whose task failed or raised and the real
\* outcome for every other host.
C12_FanOutNeverAborts ==
    FanOutEnded =>
        /\ call.phase = "returned"
        /\ results = 1..call.n
        /\ \A i \in 1..call.n : wres[i] \in {"success", "failed", "exception"}

C13_ReturnsAfterAllHosts ==
    call.phase = "returned" => \A i \in 1..call.n : wpc[i] = "done"

\* C13 witness: a fan-out over several hosts, one of which failed, has returned
C13_Witness ==
    /\ call.phase = "returned"
    /\ call.n >= 2
    /\ \E i, j \in 1..call.n : wres[i] = "failed" /\ wres[j] = "success"

(***************************************************************************)
(* ConnectionPool and JumphostConnectionPool (vwt_monitor)                 *)
(***************************************************************************)
PoolThreads == {"t1", "t2"}
PoolHosts == {"h1", "h2"}
PoolPorts == {22}
PoolUsers == {"root"}
Passwords == {"pw1", "pw2"}
Endpoints == [host : PoolHosts, port : PoolPorts, user : PoolUsers]
ClientIds == 1..MaxClients
NoRequest == [key |-> NoOne, host |-> NoOne, port |-> 0, user |-> NoOne]

\* the exceptions client.connect can raise
ConnectFailures == {"SSHException", "AuthenticationException",
                    "NoValidConnectionsError", "socket.timeout"}

\* tenacity: stop_after_attempt(3)
stop_after_attempt == 3

\* _create_connection: `except Exception as e: raise SSHException(...)`
Reraised(exc) == "SSHException"

\* tenacity: retry_if_exception_type((SSHException, AuthenticationException,
\* NoValidConnectionsError))
Retried(exc) ==
    exc \in {"SSHException", "AuthenticationException", "NoValidConnectionsError"}

\* a key that also depends on the credential
KeyWithCredential(host, port, user, password) ==
    user \o ":" \o password \o "@" \o host \o ":" \o ToString(port)

\* _get_connection_key: f"{user}@{host}:{port}"
ConnectionKey(host, port, user, password) ==
    user \o "@" \o host \o ":" \o ToString(port)

\* `connection_key in self._connections`
HasKey(conns, k) == \E c \in conns : c.key = k

\* self._connections[connection_key]
Lookup(conns, k) == CHOOSE c \in conns : c.key = k

\* _remove_connection: del self._connections[connection_key]
RemoveKey(conns, k) == {c \in conns : c.key # k}

\* self._connections[connection_key] = conn_info
DictSet(conns, info) == RemoveKey(conns, info.key) \cup {info}

\* _test_connection: the transport is active and a session can be opened
TestConnection(c) == clients[c] = "alive"

\* idle time of an entry
IdleTime(c) == now - c.last_used

\* _cleanup_idle_connections: the active entries idle for more than max_idle_time
IdleConnections(conns) == {c \in conns : c.is_active /\ IdleTime(c) > max_idle_time}

\* _cleanup_idle_connections(1): remove the entry with the largest idle time
\* (sort by idle time, descending, take the first)
CleanupOne(conns) ==
    IF IdleConnections(conns) = {} THEN conns
    ELSE LET oldest == CHOOSE c \in IdleConnections(conns) :
                          \A d \in IdleConnections(conns) : IdleTime(d) <= IdleTime(c)
         IN  RemoveKey(conns, oldest.key)

\* _cleanup_idle_connections(): remove every idle entry
CleanupAll(conns) == conns \ IdleConnections(conns)

\* a client object nobody has created yet
FreshClient == CHOOSE c \in ClientIds : clients[c] = "unused"
ClientAvailable == \E c \in ClientIds : clients[c] = "unused"

\* ConnectionPool.__init__ / JumphostConnectionPool.__init__
InitPool(kind) ==
    /\ poolKind = kind
    /\ connections = {}
    /\ clients = [c \in ClientIds |-> "unused"]
    /\ now = 0
    /\ poolLock = NoOne
    /\ stop_health_check = FALSE
    /\ jumphost_connection = 0
    /\ ppc = [t \in PoolThreads |-> "idle"]
    /\ preq = [t \in PoolThreads |-> NoRequest]
    /\ attempt = [t \in PoolThreads |-> 0]
    /\ connects = [t \in PoolThreads |-> 0]

\* the thread's Get is about to return or raise
Finished(t) ==
    /\ ppc' = [ppc EXCEPT ![t] = "return"]
    /\ preq' = [preq EXCEPT ![t] = NoRequest]
    /\ attempt' = [attempt EXCEPT ![t] = 0]

\* the Get returns to its caller (or the exception reaches it)
pool_return(t) ==
    /\ ppc[t] = "return"
    /\ ppc' = [ppc EXCEPT ![t] = "idle"]
    /\ connects' = [connects EXCEPT ![t] = 0]
    /\ UNCHANGED <<poolKind, connections, clients, now, poolLock,
                   stop_health_check, jumphost_connection, preq, attempt>>
    /\ UNCHANGED notPoolVars

\* time passes
pool_tick ==
    /\ now < MaxTime
    /\ now' = now + 1
    /\ UNCHANGED <<poolKind, connections, clients, poolLock, stop_health_check,
                   jumphost_connection, ppc, preq, attempt, connects>>
    /\ UNCHANGED notPoolVars

\* the transport of an open client breaks (peer gone, network loss)
client_dies(c) ==
    /\ clients[c] = "alive"
    /\ clients' = [clients EXCEPT ![c] = "dead"]
    /\ UNCHANGED <<poolKind, connections, now, poolLock, stop_health_check,
                   jumphost_connection, ppc, preq, attempt, connects>>
    /\ UNCHANGED notPoolVars

\* the entries left by the lookup part of get_connection when the cached entry
\* cannot be returned, followed by the capacity check
AfterLookup(conns, k) ==
    LET removed == RemoveKey(conns, k)
    IN  IF Cardinality(removed) >= max_connections THEN CleanupOne(removed)
        ELSE removed

\* get_connection under self._lock, up to the return of a cached client or the
\* start of _create_connection. SSHManager calls it only on a pool without
\* jumphost (isinstance test at every call site).
get_connection(t, e, pw) ==
    /\ poolKind = "direct"
    /\ ppc[t] = "idle"
    /\ poolLock = NoOne
    /\ LET k == ConnectionKey(e.host, e.port, e.user, pw)
       IN  IF HasKey(connections, k) /\ Lookup(connections, k).is_active
              /\ TestConnection(Lookup(connections, k).client)
           THEN \* cached and healthy: last_used updated, client returned
                /\ connections' = DictSet(connections,
                        [Lookup(connections, k) EXCEPT !.last_used = now])
                /\ ppc' = [ppc EXCEPT ![t] = "return"]
                /\ UNCHANGED <<poolLock, attempt, preq>>
           ELSE \* stale, inactive or absent: removed, room made, creation starts
                /\ connections' = AfterLookup(connections, k)
                /\ poolLock' = t
                /\ attempt' = [attempt EXCEPT ![t] = 1]
                /\ ppc' = [ppc EXCEPT ![t] = "create"]
                /\ preq' = [preq EXCEPT ![t] = [key |-> k, host |-> e.host,
                                                port |-> e.port, user |-> e.user]]
    /\ UNCHANGED <<poolKind, clients, now, stop_health_check,
                   jumphost_connection, connects>>
    /\ UNCHANGED notPoolVars

\* _create_connection inside get_connection: client.connect succeeds, the new
\* ConnectionInfo is stored and the lock released
get_connect_ok(t) ==
    /\ ppc[t] = "create"
    /\ ClientAvailable
    /\ connects' = [connects EXCEPT ![t] = @ + 1]
    /\ clients' = [clients EXCEPT ![FreshClient] = "alive"]
    /\ connections' = DictSet(connections,
            [key |-> preq[t].key, host |-> preq[t].host, port |-> preq[t].port,
             user |-> preq[t].user, client |-> FreshClient, last_used |-> now,
             is_active |-> TRUE, error_count |-> 0])
    /\ poolLock' = NoOne
    /\ Finished(t)
    /\ UNCHANGED <<poolKind, now, stop_health_check, jumphost_connection>>
    /\ UNCHANGED notPoolVars

\* _create_connection inside get_connection: client.connect raises; tenacity
\* sleeps and retries, or gives up after the last attempt and the Get raises
get_connect_fail(t, exc) ==
    /\ ppc[t] = "create"
    /\ connects' = [connects EXCEPT ![t] = @ + 1]
    /\ IF Retried(Reraised(exc)) /\ attempt[t] < stop_after_attempt
       THEN /\ ppc' = [ppc EXCEPT ![t] = "backoff"]
            /\ UNCHANGED <<poolLock, preq, attempt>>
       ELSE /\ Finished(t)
            /\ poolLock' = NoOne
    /\ UNCHANGED <<poolKind, connections, clients, now, stop_health_check,
                   jumphost_connection>>
    /\ UNCHANGED notPoolVars

\* tenacity wait_exponential is over: next attempt (the lock is still held)
get_retry(t) ==
    /\ ppc[t] = "backoff"
    /\ attempt' = [attempt EXCEPT ![t] = @ + 1]
    /\ ppc' = [ppc EXCEPT ![t] = "create"]
    /\ UNCHANGED <<poolKind, connections, clients, now, poolLock,
                   stop_health_check, jumphost_connection, preq, connects>>
    /\ UNCHANGED notPoolVars

\* return_connection: last_used of the entry is refreshed
return_connection(t, e) ==
    /\ ppc[t] = "idle"
    /\ poolLock = NoOne
    /\ LET k == ConnectionKey(e.host, e.port, e.user, NoOne)
       IN  /\ HasKey(connections, k)
           /\ connections' = DictSet(connections,
                   [Lookup(connections, k) EXCEPT !.last_used = now])
    /\ UNCHANGED <<poolKind, clients, now, poolLock, stop_health_check,
                   jumphost_connection, ppc, preq, attempt, connects>>
    /\ UNCHANGED notPoolVars

\* close_connection: the client is closed and the entry removed
close_connection(t, e) ==
    /\ ppc[t] = "idle"
    /\ poolLock = NoOne
    /\ LET k == ConnectionKey(e.host, e.port, e.user, NoOne)
       IN  /\ HasKey(connections, k)
           /\ clients' = [clients EXCEPT ![Lookup(connections, k).client] = "closed"]
           /\ connections' = RemoveKey(connections, k)
    /\ UNCHANGED <<poolKind, now, poolLock, stop_health_check,
                   jumphost_connection, ppc, preq, attempt, connects>>
    /\ UNCHANGED notPoolVars

\* clear_pool: every pooled client is closed, the map emptied
clear_pool(t) ==
    /\ ppc[t] = "idle"
    /\ poolLock = NoOne
    /\ clients' = [c \in ClientIds |->
                     IF \E i \in connections : i.client = c THEN "closed"
                     ELSE clients[c]]
    /\ connections' = {}
    /\ UNCHANGED <<poolKind, now, poolLock, stop_health_check,
                   jumphost_connection, ppc, preq, attempt, connects>>
    /\ UNCHANGED notPoolVars

\* stop_health_check: the event is set and the thread joined
stop_health_check_thread(t) ==
    /\ ppc[t] = "idle"
    /\ ~stop_health_check
    /\ stop_health_check' = TRUE
    /\ UNCHANGED <<poolKind, connections, clients, now, poolLock,
                   jumphost_connection, ppc, preq, attempt, connects>>
    /\ UNCHANGED notPoolVars

\* the probe of the health check fails for this entry
ProbeFails(c) == c.is_active /\ ~TestConnection(c.client)

\* an entry after the probe of the health check
Probed(c) ==
    IF ProbeFails(c)
    THEN [c EXCEPT !.is_active = FALSE, !.error_count = @ + 1]
    ELSE c

\* health_check_worker, one pass under the lock: idle entries are dropped, the
\* active ones probed, and an entry whose error_count reaches 3 is removed
health_check_worker ==
    /\ ~stop_health_check
    /\ poolLock = NoOne
    /\ connections' = {Probed(c) : c \in {d \in CleanupAll(connections) :
                                            ~(ProbeFails(d) /\ d.error_count + 1 >= 3)}}
    /\ UNCHANGED <<poolKind, clients, now, poolLock, stop_health_check,
                   jumphost_connection, ppc, preq, attempt, connects>>
    /\ UNCHANGED notPoolVars

\* get_connection_through_jumphost is called
get_connection_through_jumphost(t, e, pw) ==
    /\ poolKind = "jumphost"
    /\ ppc[t] = "idle"
    /\ ppc' = [ppc EXCEPT ![t] = "jh_check"]
    /\ preq' = [preq EXCEPT ![t] = [key |-> NoOne, host |-> e.host,
                                    port |-> e.port, user |-> e.user]]
    /\ UNCHANGED <<poolKind, connections, clients, now, poolLock,
                   stop_health_check, jumphost_connection, attempt, connects>>
    /\ UNCHANGED notPoolVars

\* `if self.jumphost_connection is None or not self._test_connection(...)`
jumphost_check(t) ==
    /\ ppc[t] = "jh_check"
    /\ IF jumphost_connection = 0 \/ ~TestConnection(jumphost_connection)
       THEN /\ ppc' = [ppc EXCEPT ![t] = "jh_create"]
            /\ attempt' = [attempt EXCEPT ![t] = 1]
       ELSE /\ ppc' = [ppc EXCEPT ![t] = "jh_channel"]
            /\ UNCHANGED attempt
    /\ UNCHANGED <<poolKind, connections, clients, now, poolLock,
                   stop_health_check, jumphost_connection, preq, connects>>
    /\ UNCHANGED notPoolVars

\* _create_jumphost_connection: client.connect to the jumphost succeeds (the
\* function passes through `with self._lock: pass` before it returns)
jumphost_connect_ok(t) ==
    /\ ppc[t] = "jh_create"
    /\ ClientAvailable
    /\ poolLock = NoOne
    /\ connects' = [connects EXCEPT ![t] = @ + 1]
    /\ clients' = [clients EXCEPT ![FreshClient] = "alive"]
    /\ jumphost_connection' = FreshClient
    /\ ppc' = [ppc EXCEPT ![t] = "jh_channel"]
    /\ UNCHANGED <<poolKind, connections, now, poolLock, stop_health_check,
                   preq, attempt>>
    /\ UNCHANGED notPoolVars

\* _create_jumphost_connection: client.connect to the jumphost raises; retried
\* by tenacity up to the last attempt, then the Get raises
jumphost_connect_fail(t, exc) ==
    /\ ppc[t] = "jh_create"
    /\ connects' = [connects EXCEPT ![t] = @ + 1]
    /\ IF Retried(Reraised(exc)) /\ attempt[t] < stop_after_attempt
       THEN /\ attempt' = [attempt EXCEPT ![t] = @ + 1]
            /\ UNCHANGED <<ppc, preq>>
       ELSE Finished(t)
    /\ UNCHANGED <<poolKind, connections, clients, now, poolLock,
                   stop_health_check, jumphost_connection>>
    /\ UNCHANGED notPoolVars

\* jumphost_transport.open_channel('direct-tcpip', ...): opened, or raises
jumphost_open_channel(t, opened) ==
    /\ ppc[t] = "jh_channel"
    /\ IF opened
       THEN /\ ppc' = [ppc EXCEPT ![t] = "jh_connect"]
            /\ UNCHANGED <<preq, attempt>>
       ELSE Finished(t)
    /\ UNCHANGED <<poolKind, connections, clients, now, poolLock,
                   stop_health_check, jumphost_connection, connects>>
    /\ UNCHANGED notPoolVars

\* client.connect(sock=channel, ...) to the target: one call, not retried,
\* whether it succeeds or raises; the client goes to the caller and is not
\* stored in the pool, which keeps no trace of it
jumphost_target_connect(t, ok) ==
    /\ ppc[t] = "jh_connect"
    /\ connects' = [connects EXCEPT ![t] = @ + 1]
    /\ Finished(t)
    /\ UNCHANGED <<poolKind, connections, clients, now, poolLock,
                   stop_health_check, jumphost_connection>>
    /\ UNCHANGED notPoolVars

PoolStep ==
    \/ pool_tick
    \/ \E c \in ClientIds : client_dies(c)
    \/ \E t \in PoolThreads, e \in Endpoints, pw \in Passwords : get_connection(t, e, pw)
    \/ \E t \in PoolThreads : pool_return(t)
    \/ \E t \in PoolThreads : get_connect_ok(t)
    \/ \E t \in PoolThreads, exc \in ConnectFailures : get_connect_fail(t, exc)
    \/ \E t \in PoolThreads : get_retry(t)
    \/ \E t \in PoolThreads, e \in Endpoints : return_connection(t, e)
    \/ \E t \in PoolThreads, e \in Endpoints : close_connection(t, e)
    \/ \E t \in PoolThreads : clear_pool(t)
    \/ \E t \in PoolThreads : stop_health_check_thread(t)
    \/ health_check_worker
    \/ \E t \in PoolThreads, e \in Endpoints, pw \in Passwords :
          get_connection_through_jumphost(t, e, pw)
    \/ \E t \in PoolThreads : jumphost_check(t)
    \/ \E t \in PoolThreads : jumphost_connect_ok(t)
    \/ \E t \in PoolThreads, exc \in ConnectFailures : jumphost_connect_fail(t, exc)
    \/ \E t \in PoolThreads, opened \in BOOLEAN : jumphost_open_channel(t, opened)
    \/ \E t \in PoolThreads, ok \in BOOLEAN : jumphost_target_connect(t, ok)

\* the active entries the pool holds for an endpoint
ActiveFor(e) ==
    {c \in connections :
        c.host = e.host /\ c.port = e.port /\ c.user = e.user /\ c.is_active}

\* C2: under any interleaving of Get, Return, CloseConnection, health-check
\* ticks and shutdown, the pool holds at most one active ConnectionInfo per
\* (host, port, user).
C2_KeyUniqueness == \A e \in Endpoints : Cardinality(ActiveFor(e)) <= 1

\* C2 witness: an endpoint was connected, its entry went stale and a second Get
\* for it has replaced the entry with a newer client while another endpoint is
\* pooled as well
C2_Witness ==
    \E c \in connections, d \in connections :
        /\ c.key # d.key
        /\ c.is_active /\ d.is_active
        /\ \E old \in ClientIds : old < c.client /\ clients[old] = "dead"

\* C10: one Get that has to establish a connection, directly or through the
\* jumphost, never makes more than 3 client.connect calls.
C10_RetryBound == \A t \in PoolThreads : connects[t] <= 3

\* the thread is suspended inside client.connect or in the backoff sleep
Suspended(t) == ppc[t] \in {"create", "backoff"}

\* C15: no thread holds the lock of the pool map while it is suspended on
\* network I/O or a retry backoff sleep, so a Get for one endpoint never waits
\* for the connect or the backoff of another endpoint.
C15_NoLockWhileSuspended == \A t \in PoolThreads : Suspended(t) => poolLock # t

\* thread t starts a Get that misses the pool while the pool is at capacity
MissAtCapacity(t) ==
    /\ ppc[t] = "idle"
    /\ ppc'[t] = "create"
    /\ ~HasKey(connections, preq'[t].key)
    /\ Cardinality(connections) >= max_connections

\* C16: when Get has to create a connection and the pool already holds
\* max_connections entries, exactly one connection, the one with the largest
\* idle time, is evicted before the new connection is created.
C16_EvictsOneAtCapacity ==
    [][\A t \in PoolThreads :
          MissAtCapacity(t) =>
             \E c \in connections :
                /\ \A d \in connections : IdleTime(d) <= IdleTime(c)
                /\ connections' = connections \ {c}]_vars

\* C17: on each health-check tick every entry that remains after idle eviction
\* is probed; a failed probe increments the entry's error_count, and the entry
\* is removed when error_count reaches 3, so an entry whose probe fails on every
\* tick is removed on its third failed probe.
C17_RemovedOnThirdFailure ==
    [][health_check_worker =>
          \A c \in CleanupAll(connections) :
             ~TestConnection(c.client) =>
                IF c.error_count + 1 >= 3
                THEN ~HasKey(connections', c.key)
                ELSE /\ HasKey(connections', c.key)
                     /\ Lookup(connections', c.key).error_count = c.error_count + 1]_vars

\* the errors the retry policy names: protocol, authentication, unreachable
RetryableErrors == {"SSHException", "AuthenticationException",
                    "NoValidConnectionsError"}

\* C19: connection establishment is retried only when the failed attempt raised
\* a protocol, an authentication or an unreachable-host error; a failure of any
\* other kind ends the Get after a single connect.
C19_RetryOnlyListedErrors ==
    [][\A t \in PoolThreads : \A exc \in ConnectFailures \ RetryableErrors :
          get_connect_fail(t, exc) => ppc'[t] # "backoff"]_vars

\* C31: whatever the idle times of the entries, the pool never holds more
\* than max_connections connections.
C31_PoolSizeBound == Cardinality(connections) <= max_connections

\* C39: every connection that leaves the pool map (idle eviction, failed probe
\* during Get, health-check removal, explicit close, shutdown) has its SSH
\* client closed: no client that left the map is left open by the pool.
C39_RemovedClientsClosed ==
    [][\A i \in connections :
          (\A j \in connections' : j.client # i.client) =>
             clients'[i.client] = "closed"]_vars

\* C36: with a jumphost, the pool keeps one jumphost connection and reuses it:
\* while that connection passes its liveness probe no second jumphost
\* connection is created, however many workers call Get concurrently.
C36_OneJumphostConnection ==
    [][(jumphost_connection # 0 /\ TestConnection(jumphost_connection)) =>
          jumphost_connection' = jumphost_connection]_vars

(***************************************************************************)
(* SSHManager.start_log_capture and the steps of the manager               *)
(***************************************************************************)
\* the hosts a start_log_capture call can name
CaptureTargets == {<<"h1">>, <<"h1", "h2">>}
NoStart == [n |-> 0, outcome |-> NoOne]

\* SSHManager.__init__: self.log_capture is a LogCapture when
\* config.log_capture.enabled, None otherwise
InitStart(enabled) ==
    /\ log_capture_enabled = enabled
    /\ slc = NoStart

\* connection_pool.get_connection for one host of start_log_capture, on the
\* pool p = [connections, clients, started]: a cached healthy client is
\* reused; otherwise the stale entry goes, room is made and a connection is
\* created, or the creation fails for good (the exception is logged by
\* start_log_capture, which goes on to the next host)
PoolGet(p, h, ok) ==
    LET k == ConnectionKey(h, 22, "root", NoOne)
        cached == /\ HasKey(p.connections, k)
                  /\ Lookup(p.connections, k).is_active
                  /\ p.clients[Lookup(p.connections, k).client] = "alive"
        room == AfterLookup(p.connections, k)
        canCreate == ok /\ \E c \in ClientIds : p.clients[c] = "unused"
        fresh == CHOOSE c \in ClientIds : p.clients[c] = "unused"
    IN  IF cached
        THEN [p EXCEPT !.connections = DictSet(@, [Lookup(@, k) EXCEPT !.last_used = now]),
                       !.started = @ \cup {h}]
        ELSE IF canCreate
        THEN [connections |-> DictSet(room,
                  [key |-> k, host |-> h, port |-> 22, user |-> "root",
                   client |-> fresh, last_used |-> now, is_active |-> TRUE,
                   error_count |-> 0]),
              clients |-> [p.clients EXCEPT ![fresh] = "alive"],
              started |-> p.started \cup {h}]
        ELSE [p EXCEPT !.connections = room]

RECURSIVE AfterGets(_, _, _)
\* `for host in target_hosts:` get the connection, then start_capture
AfterGets(p, hs, connected) ==
    IF hs = <<>> THEN p
    ELSE AfterGets(PoolGet(p, Head(hs), Head(hs) \in connected), Tail(hs), connected)

\* start_log_capture(log_file_path, hosts): raises RuntimeError when
\* self.log_capture is None; otherwise gets a connection for every target host
\* and calls LogCapture.start_capture, which starts a capture thread unless
\* the host has one
start_log_capture(hs, connected) ==
    /\ call.phase = "idle"
    /\ poolLock = NoOne
    /\ poolKind = "direct"
    /\ slc.n < MaxStarts
    /\ \A i \in 1..Len(hs) : hs[i] \in capture_threads \/ cpc[hs[i]] = "none"
    /\ IF ~log_capture_enabled
       THEN /\ slc' = [n |-> slc.n + 1, outcome |-> "RuntimeError"]
            /\ UNCHANGED <<connections, clients, capture_threads, stop_events, cpc>>
       ELSE LET p == AfterGets([connections |-> connections, clients |-> clients,
                                started |-> {}], hs, connected)
                new == p.started \ capture_threads
            IN  /\ connections' = p.connections
                /\ clients' = p.clients
                /\ capture_threads' = capture_threads \cup new
                /\ stop_events' = stop_events \ new
                /\ cpc' = [h \in LogHosts |-> IF h \in new THEN "loop" ELSE cpc[h]]
                /\ slc' = [n |-> slc.n + 1, outcome |-> "returned"]
    /\ UNCHANGED <<log_capture_enabled, iperfVars, configVars, pidVars, runVars, sessVars>>
    /\ UNCHANGED <<logVariant, log_buffer, arrivals, linesRead, stats_total,
                   entries_by_host, entries_by_level, centry, ctmp, logLock>>
    /\ UNCHANGED <<poolKind, now, poolLock, stop_health_check,
                   jumphost_connection, ppc, preq, attempt, connects>>
    /\ UNCHANGED <<mgrVars, chanVars, trafficVars>>

MgrStep ==
    \/ close
    \/ \E hs \in CaptureTargets : \E connected \in SUBSET LogHosts :
          start_log_capture(hs, connected)
    \/ \E op \in FanOutOps, n \in WorkerIds, ex \in BOOLEAN : fanout_call(op, n, ex)
    \/ fanout_submit
    \/ executor_exit
    \/ fanout_collect
    \/ fanout_return
    \/ fanout_done
    \/ \E i \in WorkerIds : worker_acquire(i)
    \/ \E i \in WorkerIds, o \in {"success", "failed", "exception"} : worker_release(i, o)

\* C22: with log capture disabled in the configuration, start_log_capture is
\* a no-op: it returns normally and starts no capture loop.
C22_DisabledIsNoOp ==
    (~log_capture_enabled /\ slc.n > 0) =>
        (slc.outcome = "returned" /\ capture_threads = {})

(***************************************************************************)
(* ChannelManager (vwt_monitor and ztw_manager)                            *)
(***************************************************************************)
ChanThreads == {"c1", "c2"}
ChanHosts == {"h1", "h2"}
ChannelIds == 1..MaxChannels

\* Strings the code takes apart are sequences of characters; a command is
\* the sequence of its words (what command.strip().split() returns).
W_cd == <<"c", "d">>
W_ls == <<"l", "s">>
W_false == <<"f", "a", "l", "s", "e">>
W_echo == <<"e", "c", "h", "o">>
W_sudo == <<"s", "u", "d", "o">>
D_abs == <<"/", "a">>
D_rel == <<"b">>
D_dash == <<"-">>
\* current_directory of a new channel
NoneDir == <<"None">>

\* ChannelCommand: command text and flags; one expect pattern "P" whose
\* response, when there is one, is "r"
ChannelCommand(words, patterns, responses, wait, clean) ==
    [words |-> words, expect_patterns |-> patterns,
     expect_responses |-> responses, wait_for_prompt |-> wait,
     clean_channel |-> clean]
Plain(words) == ChannelCommand(words, {}, {}, FALSE, FALSE)

\* chunks a remote shell can write: text holding the pattern, other text,
\* text ending in the prompt
Chunks == {"P", "x", "$"}

NoInfo == [present |-> FALSE, current_directory |-> NoneDir]

\* ChannelManager.__init__
InitChan(variant, threads, menu, chunks) ==
    /\ chanVariant = variant
    /\ kthreads = threads
    /\ kmenu = menu
    /\ kchunks = chunks
    /\ channels = [h \in ChanHosts |-> 0]
    /\ channel_info = [h \in ChanHosts |-> NoInfo]
    /\ chan_state = [c \in ChannelIds |-> "unused"]
    /\ chan_buf = [c \in ChannelIds |-> <<>>]
    /\ chan_emitted = 0
    /\ chan_exit = [c \in ChannelIds |-> -1]
    /\ kpc = [t \in ChanThreads |-> "idle"]
    /\ khost = [t \in ChanThreads |-> NoOne]
    /\ kcmds = [t \in ChanThreads |-> <<>>]
    /\ kidx = [t \in ChanThreads |-> 0]
    /\ kchan = [t \in ChanThreads |-> 0]
    /\ kresults = [t \in ChanThreads |-> <<>>]
    /\ ksent = [t \in ChanThreads |-> <<>>]
    /\ kout = [t \in ChanThreads |-> <<>>]
    /\ kiter = [t \in ChanThreads |-> 0]
    /\ kfired = [t \in ChanThreads |-> 0]
    /\ kerr = [t \in ChanThreads |-> FALSE]
    /\ kruns = [t \in ChanThreads |-> 0]
    /\ kmode = [t \in ChanThreads |-> "chain"]

\* `host in self.channels and not self.channels[host].closed`
HasOpenChannel(h) == channels[h] # 0 /\ chan_state[channels[h]] = "open"

\* a channel object nobody has created yet
FreshChannel == CHOOSE c \in ChannelIds : chan_state[c] = "unused"
ChannelAvailable == \E c \in ChannelIds : chan_state[c] = "unused"

\* the registry after get_channel(h): vwt forgets a closed channel
AfterGetChannel(h) ==
    IF chanVariant = "vwt" /\ channels[h] # 0 /\ ~HasOpenChannel(h)
    THEN <<[channels EXCEPT ![h] = 0], [channel_info EXCEPT ![h] = NoInfo]>>
    ELSE <<channels, channel_info>>

\* the registry after close_channel(h): vwt deletes channel and info, ztw
\* deletes the channel and keeps the info
AfterCloseChannel(h) ==
    IF channels[h] = 0 THEN <<channels, channel_info>>
    ELSE <<[channels EXCEPT ![h] = 0],
           IF chanVariant = "vwt" THEN [channel_info EXCEPT ![h] = NoInfo]
           ELSE channel_info>>

\* execute_chain_commands, first registry access: vwt create_channel (new
\* channel requested) or get_channel; ztw close_channel (new channel
\* requested) or get_channel
BeginCall(t, h, chain, create_new_channel, mode) ==
    /\ t \in kthreads
    /\ kpc[t] = "idle"
    /\ kruns[t] < MaxChains
    /\ kruns' = [kruns EXCEPT ![t] = @ + 1]
    /\ kmode' = [kmode EXCEPT ![t] = mode]
    /\ khost' = [khost EXCEPT ![t] = h]
    /\ kcmds' = [kcmds EXCEPT ![t] = chain]
    /\ kidx' = [kidx EXCEPT ![t] = 1]
    /\ kresults' = [kresults EXCEPT ![t] = <<>>]
    /\ ksent' = [ksent EXCEPT ![t] = <<>>]
    /\ IF create_new_channel
       THEN IF chanVariant = "vwt"
            THEN \* create_channel(host), which is entered in chain_create
                 /\ kpc' = [kpc EXCEPT ![t] = "create_new"]
                 /\ UNCHANGED <<channels, channel_info, chan_state, kchan>>
            ELSE \* self.close_channel(host)
                 /\ channels' = AfterCloseChannel(h)[1]
                 /\ channel_info' = AfterCloseChannel(h)[2]
                 /\ chan_state' = IF channels[h] # 0
                                  THEN [chan_state EXCEPT ![channels[h]] = "closed"]
                                  ELSE chan_state
                 /\ kpc' = [kpc EXCEPT ![t] = "create_new"]
                 /\ UNCHANGED kchan
       ELSE \* channel = self.get_channel(host)
            /\ channels' = AfterGetChannel(h)[1]
            /\ channel_info' = AfterGetChannel(h)[2]
            /\ IF HasOpenChannel(h)
               THEN /\ kchan' = [kchan EXCEPT ![t] = channels[h]]
                    /\ kpc' = [kpc EXCEPT ![t] = "loop"]
               ELSE /\ kpc' = [kpc EXCEPT ![t] = "create"]
                    /\ UNCHANGED kchan
            /\ UNCHANGED chan_state
    /\ UNCHANGED <<chanVariant, kthreads, kmenu, kchunks, chan_buf, chan_emitted, chan_exit,
                   kout, kiter, kfired, kerr>>
    /\ UNCHANGED notChanVars

\* execute_chain_commands(host, commands, create_new_channel) is called
chain_begin(t, h, chain, create_new_channel) ==
    BeginCall(t, h, chain, create_new_channel, "chain")

\* the ChannelCommand execute_interactive_commands builds from a pair
\* (command, expect_patterns): vwt sets wait_for_prompt=True, ztw leaves the
\* default; neither passes expect_responses
InteractiveCommand(cmd) ==
    ChannelCommand(cmd.words, cmd.expect_patterns, {}, chanVariant = "vwt", FALSE)

\* execute_interactive_commands(host, pairs): vwt takes
\* `get_channel(host) or create_channel(host)` and runs its own loop; ztw calls
\* execute_chain_commands(host, channel_commands, create_new_channel=True)
interactive_begin(t, h, pairs) ==
    BeginCall(t, h, [i \in 1..Len(pairs) |-> InteractiveCommand(pairs[i])],
              chanVariant = "ztw", "interactive")

\* create_channel under the lock: vwt returns the host's open channel when
\* there is one; otherwise invoke_shell opens a channel, which is stored with
\* a new info record, or raises and the exception leaves execute_chain_commands
chain_create(t, shellOpens) ==
    /\ kpc[t] \in {"create", "create_new"}
    /\ IF chanVariant = "vwt" /\ HasOpenChannel(khost[t])
       THEN /\ shellOpens
            /\ kchan' = [kchan EXCEPT ![t] = channels[khost[t]]]
            /\ kpc' = [kpc EXCEPT ![t] = "loop"]
            /\ UNCHANGED <<channels, channel_info, chan_state>>
       ELSE IF shellOpens
            THEN /\ ChannelAvailable
                 /\ chan_state' = [chan_state EXCEPT ![FreshChannel] = "open"]
                 /\ channels' = [channels EXCEPT ![khost[t]] = FreshChannel]
                 /\ channel_info' = [channel_info EXCEPT ![khost[t]] =
                                       [present |-> TRUE, current_directory |-> NoneDir]]
                 /\ kchan' = [kchan EXCEPT ![t] = FreshChannel]
                 /\ kpc' = [kpc EXCEPT ![t] = "loop"]
            ELSE /\ kpc' = [kpc EXCEPT ![t] = "raised"]
                 /\ UNCHANGED <<channels, channel_info, chan_state, kchan>>
    /\ UNCHANGED <<chanVariant, kthreads, kmenu, kchunks, chan_buf, chan_emitted, chan_exit,
                   khost, kcmds, kidx, kresults, ksent, kout, kiter, kfired,
                   kerr, kruns, kmode>>
    /\ UNCHANGED notChanVars

\* ChannelResult: the fields the chain logic reads (None exit code: -1)
ChannelResult(cmd, code, err, ok) ==
    [command |-> cmd.words, exit_code |-> code, error |-> err, success |-> ok]

\* `for cmd in commands`: the command after command i
ChainSkip(i) == i + 2
ChainNext(i) == i + 1

\* `exit_code == 0 if exit_code is not None else True`
Success(code) == IF code # -1 THEN code = 0 ELSE TRUE

\* `cmd.command.strip().startswith('cd ')`
IsCd(cmd) == Len(cmd.words) >= 2 /\ cmd.words[1] = W_cd

\* vwt _update_current_directory: the info record of the host afterwards
\* ("-": pass; absolute: replace; relative: join to the current directory,
\* which raises and is logged when the current directory is None)
UpdateCurrentDirectory(info, words) ==
    IF Len(words) < 2 \/ ~info.present THEN info
    ELSE LET directory == words[2]
             current == info.current_directory
         IN  IF directory = D_dash THEN info
             ELSE IF Head(directory) = "/"
                  THEN [info EXCEPT !.current_directory = directory]
             ELSE IF current = NoneDir THEN info
             ELSE IF current[Len(current)] = "/"
                  THEN [info EXCEPT !.current_directory = current \o directory]
             ELSE [info EXCEPT !.current_directory = current \o <<"/">> \o directory]

\* _clean_channel_buffer: everything readable is read and dropped
CleanedBuf(c, clean) == IF clean THEN [chan_buf EXCEPT ![c] = <<>>] ELSE chan_buf

\* the directory following every cd, whatever its result
ChainDirectoryAnyResult(t, result) ==
    IF chanVariant = "vwt" /\ IsCd(kcmds[t][kidx[t]])
    THEN [channel_info EXCEPT ![khost[t]] =
             UpdateCurrentDirectory(@, kcmds[t][kidx[t]].words)]
    ELSE channel_info

\* the registry after a result of execute_chain_commands: vwt follows a
\* successful cd; ztw never calls _update_current_directory
ChainDirectory(t, result) ==
    IF chanVariant = "vwt" /\ result.success /\ IsCd(kcmds[t][kidx[t]])
    THEN [channel_info EXCEPT ![khost[t]] =
             UpdateCurrentDirectory(@, kcmds[t][kidx[t]].words)]
    ELSE channel_info

\* what the loop does with a result: vwt breaks after a failure, and its chain
\* loop (not its interactive loop) follows a successful cd; ztw goes on to the
\* next command whatever the result
AfterResult(t, result) ==
    LET cmd == kcmds[t][kidx[t]]
        stop == chanVariant = "vwt" /\ ~result.success
        next == ChainNext(kidx[t])
    IN  /\ kresults' = [kresults EXCEPT ![t] = Append(@, result)]
        /\ channel_info' =
              IF chanVariant = "vwt" /\ kmode[t] = "interactive"
              THEN channel_info
              ELSE ChainDirectory(t, result)
        /\ kidx' = [kidx EXCEPT ![t] = IF stop THEN @ ELSE next]
        /\ kpc' = [kpc EXCEPT ![t] =
                     IF stop \/ next > Len(kcmds[t]) THEN "done" ELSE "loop"]

\* _execute_single_command up to the send: the buffer is cleaned on request,
\* then the command is sent; on a closed channel the send raises and the
\* command's result is a failure
chain_send(t) ==
    /\ kpc[t] = "loop"
    /\ kidx[t] <= Len(kcmds[t])
    /\ LET cmd == kcmds[t][kidx[t]]
           c == kchan[t]
       IN  IF chan_state[c] = "open"
           THEN /\ chan_buf' = CleanedBuf(c, cmd.clean_channel)
                /\ ksent' = [ksent EXCEPT ![t] = Append(@, cmd.words)]
                /\ kout' = [kout EXCEPT ![t] = <<>>]
                /\ kiter' = [kiter EXCEPT ![t] = 0]
                /\ kfired' = [kfired EXCEPT ![t] = 0]
                /\ kerr' = [kerr EXCEPT ![t] = FALSE]
                /\ kpc' = [kpc EXCEPT ![t] = "fetch"]
                /\ UNCHANGED <<kresults, channel_info, kidx>>
           ELSE /\ AfterResult(t, ChannelResult(cmd, -1, TRUE, FALSE))
                /\ chan_buf' = CleanedBuf(c, cmd.clean_channel)
                /\ UNCHANGED <<ksent, kout, kiter, kfired, kerr>>
    /\ UNCHANGED <<chanVariant, kthreads, kmenu, kchunks, channels, chan_state, chan_emitted,
                   chan_exit, khost, kcmds, kchan, kruns, kmode>>
    /\ UNCHANGED notChanVars

\* `pattern in output` (vwt), re.search(pattern, output) (ztw)
PatternIn(out) == \E i \in 1..Len(out) : out[i] = "P"
\* re.search(prompt_pattern, output): the output ends in the prompt
PromptIn(out) == Len(out) > 0 /\ out[Len(out)] = "$"

\* the expect response a command sends when its pattern is in the output
Responds(cmd, out) ==
    /\ "P" \in cmd.expect_patterns
    /\ "P" \in cmd.expect_responses
    /\ PatternIn(out)

\* vwt fetch_output: the loop condition
FetchLoops(t) ==
    /\ chan_exit[kchan[t]] = -1 \/ Len(chan_buf[kchan[t]]) > 0
    /\ kiter[t] <= poll_iterations

\* vwt fetch_output, one iteration of the loop: read what is readable; on
\* data reset the iteration count and answer every pattern found in the
\* accumulated output (the send raises on a closed channel, which ends
\* fetch_output with the error); without data count the iteration; leave on
\* the prompt or on the exit status
fetch_output_vwt(t) ==
    /\ chanVariant = "vwt"
    /\ kpc[t] = "fetch"
    /\ FetchLoops(t)
    /\ LET c == kchan[t]
           cmd == kcmds[t][kidx[t]]
           hasData == Len(chan_buf[c]) > 0
           out == IF hasData THEN Append(kout[t], Head(chan_buf[c])) ELSE kout[t]
           responds == hasData /\ Responds(cmd, out)
           raises == responds /\ chan_state[c] # "open"
       IN  /\ chan_buf' = IF hasData THEN [chan_buf EXCEPT ![c] = Tail(@)] ELSE chan_buf
           /\ kout' = [kout EXCEPT ![t] = out]
           /\ kiter' = [kiter EXCEPT ![t] = IF hasData THEN 0 ELSE @ + 1]
           /\ kfired' = [kfired EXCEPT ![t] = IF responds /\ ~raises THEN @ + 1 ELSE @]
           /\ kerr' = [kerr EXCEPT ![t] = raises]
           /\ kpc' = [kpc EXCEPT ![t] =
                        IF \/ raises
                           \/ cmd.wait_for_prompt /\ PromptIn(out)
                           \/ chan_exit[c] # -1
                        THEN "result" ELSE "fetch"]
    /\ UNCHANGED <<chanVariant, kthreads, kmenu, kchunks, channels, channel_info, chan_state,
                   chan_emitted, chan_exit, khost, kcmds, kidx, kchan, kresults,
                   ksent, kruns, kmode>>
    /\ UNCHANGED notChanVars

\* ztw fetch_output, one iteration of the loop, entered while the timeout
\* has not elapsed: read what is readable, answer every pattern found in the
\* accumulated output and append the response to the output, leave on the
\* prompt; with nothing to read leave on the exit status or sleep
fetch_output_ztw(t, elapsed) ==
    /\ chanVariant = "ztw"
    /\ kpc[t] = "fetch"
    /\ LET c == kchan[t]
           cmd == kcmds[t][kidx[t]]
           hasData == Len(chan_buf[c]) > 0
           read == Append(kout[t], Head(chan_buf[c]))
           responds == Responds(cmd, read)
           raises == responds /\ chan_state[c] # "open"
           out == IF responds /\ ~raises THEN Append(read, "r") ELSE read
       IN  IF elapsed THEN
                /\ kpc' = [kpc EXCEPT ![t] = "result"]
                /\ UNCHANGED <<chan_buf, kout, kfired, kerr>>
           ELSE IF hasData THEN
                /\ chan_buf' = [chan_buf EXCEPT ![c] = Tail(@)]
                /\ kout' = [kout EXCEPT ![t] = out]
                /\ kfired' = [kfired EXCEPT ![t] = IF responds /\ ~raises THEN @ + 1 ELSE @]
                /\ kerr' = [kerr EXCEPT ![t] = raises]
                /\ kpc' = [kpc EXCEPT ![t] =
                             IF raises \/ (cmd.wait_for_prompt /\ PromptIn(out))
                             THEN "result" ELSE "fetch"]
           ELSE /\ chan_exit[c] # -1
                /\ kpc' = [kpc EXCEPT ![t] = "result"]
                /\ UNCHANGED <<chan_buf, kout, kfired, kerr>>
    /\ UNCHANGED <<chanVariant, kthreads, kmenu, kchunks, channels, channel_info, chan_state,
                   chan_emitted, chan_exit, khost, kcmds, kidx, kchan, kresults,
                   ksent, kiter, kruns, kmode>>
    /\ UNCHANGED notChanVars

\* _execute_single_command after fetch_output, and the chain's reaction to
\* the result. vwt: the result carries the exit status when it is ready and
\* succeeds unless that status is non-zero. ztw: unpacking the three values
\* fetch_output returns into two names raises ValueError, so the result is a
\* failure, after which the buffer is cleaned when the command asks for it.
chain_result(t) ==
    /\ \/ kpc[t] = "result"
       \/ chanVariant = "vwt" /\ kpc[t] = "fetch" /\ ~FetchLoops(t)
    /\ LET cmd == kcmds[t][kidx[t]]
           c == kchan[t]
       IN  IF chanVariant = "vwt"
           THEN /\ AfterResult(t, ChannelResult(cmd, chan_exit[c], kerr[t],
                                                Success(chan_exit[c])))
                /\ UNCHANGED chan_buf
           ELSE /\ AfterResult(t, ChannelResult(cmd, -1, TRUE, FALSE))
                /\ chan_buf' = CleanedBuf(c, cmd.clean_channel)
    /\ kout' = [kout EXCEPT ![t] = <<>>]
    /\ kiter' = [kiter EXCEPT ![t] = 0]
    /\ kfired' = [kfired EXCEPT ![t] = 0]
    /\ kerr' = [kerr EXCEPT ![t] = FALSE]
    /\ UNCHANGED <<chanVariant, kthreads, kmenu, kchunks, channels, chan_state,
                   chan_emitted, chan_exit, khost, kcmds, kchan, ksent, kruns, kmode>>
    /\ UNCHANGED notChanVars

\* execute_chain_commands returns its results, or the exception of
\* create_channel reaches the caller; the locals of the call are gone
chain_return(t) ==
    /\ kpc[t] \in {"done", "raised"}
    /\ kpc' = [kpc EXCEPT ![t] = "idle"]
    /\ khost' = [khost EXCEPT ![t] = NoOne]
    /\ kcmds' = [kcmds EXCEPT ![t] = <<>>]
    /\ kidx' = [kidx EXCEPT ![t] = 0]
    /\ kchan' = [kchan EXCEPT ![t] = 0]
    /\ kresults' = [kresults EXCEPT ![t] = <<>>]
    /\ ksent' = [ksent EXCEPT ![t] = <<>>]
    /\ kmode' = [kmode EXCEPT ![t] = "chain"]
    /\ UNCHANGED <<chanVariant, kthreads, kmenu, kchunks, channels, channel_info,
                   chan_state, chan_buf, chan_emitted, chan_exit, kout, kiter,
                   kfired, kerr, kruns>>
    /\ UNCHANGED notChanVars

\* close_channel(host), called by a thread that runs no chain
close_channel(t, h) ==
    /\ t \in kthreads
    /\ kpc[t] = "idle"
    /\ channels[h] # 0
    /\ chan_state' = [chan_state EXCEPT ![channels[h]] = "closed"]
    /\ channels' = AfterCloseChannel(h)[1]
    /\ channel_info' = AfterCloseChannel(h)[2]
    /\ UNCHANGED <<chanVariant, kthreads, kmenu, kchunks, chan_buf, chan_emitted, chan_exit,
                   kpc, khost, kcmds, kidx, kchan, kresults, ksent, kout, kiter,
                   kfired, kerr, kruns, kmode>>
    /\ UNCHANGED notChanVars

\* the remote shell writes a chunk of output while a command is collected
remote_output(c, chunk) ==
    /\ chunk \in kchunks
    /\ chan_state[c] = "open"
    /\ chan_exit[c] = -1
    /\ \E t \in ChanThreads : kpc[t] = "fetch" /\ kchan[t] = c
    /\ chan_emitted < MaxChunks
    /\ chan_emitted' = chan_emitted + 1
    /\ chan_buf' = [chan_buf EXCEPT ![c] = Append(@, chunk)]
    /\ UNCHANGED <<chanVariant, kthreads, kmenu, kchunks, channels, channel_info, chan_state,
                   chan_exit, kpc, khost, kcmds, kidx, kchan, kresults, ksent,
                   kout, kiter, kfired, kerr, kruns, kmode>>
    /\ UNCHANGED notChanVars

\* the remote shell exits with a status
remote_exit(c, code) ==
    /\ chan_state[c] = "open"
    /\ chan_exit[c] = -1
    /\ chan_exit' = [chan_exit EXCEPT ![c] = code]
    /\ UNCHANGED <<chanVariant, kthreads, kmenu, kchunks, channels, channel_info, chan_state,
                   chan_buf, chan_emitted, kpc, khost, kcmds, kidx, kchan,
                   kresults, ksent, kout, kiter, kfired, kerr, kruns, kmode>>
    /\ UNCHANGED notChanVars

\* the channel is closed from the remote side
remote_close(c) ==
    /\ chan_state[c] = "open"
    /\ chan_state' = [chan_state EXCEPT ![c] = "closed"]
    /\ UNCHANGED <<chanVariant, kthreads, kmenu, kchunks, channels, channel_info, chan_buf,
                   chan_emitted, chan_exit, kpc, khost, kcmds, kidx, kchan,
                   kresults, ksent, kout, kiter, kfired, kerr, kruns, kmode>>
    /\ UNCHANGED notChanVars

ChanStep ==
    \/ \E t \in ChanThreads, h \in ChanHosts, chain \in kmenu, n \in BOOLEAN :
          chain_begin(t, h, chain, n)
    \/ \E t \in ChanThreads, ok \in BOOLEAN : chain_create(t, ok)
    \/ \E t \in ChanThreads : chain_send(t)
    \/ \E t \in ChanThreads : fetch_output_vwt(t)
    \/ \E t \in ChanThreads, elapsed \in BOOLEAN : fetch_output_ztw(t, elapsed)
    \/ \E t \in ChanThreads : chain_result(t)
    \/ \E t \in ChanThreads : chain_return(t)
    \/ \E t \in ChanThreads, h \in ChanHosts : close_channel(t, h)
    \/ \E c \in ChannelIds, chunk \in Chunks : remote_output(c, chunk)
    \/ \E c \in ChannelIds, code \in {0, 1} : remote_exit(c, code)
    \/ \E c \in ChannelIds : remote_close(c)

\* the channel manager with execute_interactive_commands among its entry points
InteractiveStep ==
    \/ ChanStep
    \/ \E t \in ChanThreads, h \in ChanHosts, pairs \in kmenu :
          interactive_begin(t, h, pairs)

\* ---- chains submitted in the runs below ----
ListChain == <<Plain(<<W_ls>>)>>
CdChain == <<Plain(<<W_cd, D_abs>>), Plain(<<W_cd, D_rel>>)>>
CdBackChain == <<Plain(<<W_cd, D_abs>>), Plain(<<W_cd, D_rel>>), Plain(<<W_cd, D_dash>>)>>
RelativeCdChain == <<Plain(<<W_cd, D_rel>>)>>
CdListChain == <<Plain(<<W_cd, D_abs>>), Plain(<<W_ls>>)>>
SudoChain == <<ChannelCommand(<<W_sudo>>, {"P"}, {"P"}, TRUE, FALSE)>>
CleanChain == <<ChannelCommand(<<W_ls>>, {"P"}, {}, FALSE, TRUE)>>


(***************************************************************************)
(* Properties of the channel manager                                       *)
(***************************************************************************)
\* the thread has sent a command and has not yet built its result
InCommand(t) == kpc[t] \in {"fetch", "result"}

\* C3: on one channel, from the send of a command to the end of the
\* collection of its output, no other thread is inside a command of its own
C3_ChannelSerialized ==
    \A t1, t2 \in ChanThreads :
        (t1 # t2 /\ InCommand(t1) /\ InCommand(t2)) => kchan[t1] # kchan[t2]

\* C4: the results of a chain are those of its commands, in the order of
\* submission, and a command is sent only when the results of all commands
\* before it have been collected
C4_ResultsInOrder ==
    \A t \in ChanThreads :
        /\ Len(kresults[t]) <= Len(kcmds[t])
        /\ \A i \in 1..Len(kresults[t]) : kresults[t][i].command = kcmds[t][i].words
        /\ Len(ksent[t]) <= Len(kresults[t]) + 1
        /\ \A i \in 1..Len(ksent[t]) : ksent[t][i] = kcmds[t][i].words
C4_Witness ==
    \E t \in ChanThreads :
        /\ kpc[t] = "done"
        /\ Len(kcmds[t]) = 3
        /\ Len(kresults[t]) = 3
        /\ Len(ksent[t]) = 3

\* C5: after the first failed command of a chain no later command of the
\* chain is sent: a failed result is the last result and nothing is sent
\* after its command
C5_StopsAfterFailure ==
    \A t \in ChanThreads : \A i \in 1..Len(kresults[t]) :
        ~kresults[t][i].success => (i = Len(kresults[t]) /\ Len(ksent[t]) <= i)

AllSucceeded(t) ==
    /\ Len(kresults[t]) = Len(kcmds[t])
    /\ \A i \in 1..Len(kresults[t]) : kresults[t][i].success

\* C6: after a successful cd /a and a successful cd b the tracked directory
\* is /a/b, and after a following successful cd - it is /a
C6_DirectoryTracking ==
    \A t \in ChanThreads :
        (kpc[t] = "done" /\ AllSucceeded(t)) =>
            /\ kcmds[t] = CdChain =>
                  channel_info[khost[t]].current_directory = <<"/", "a", "/", "b">>
            /\ kcmds[t] = CdBackChain =>
                  channel_info[khost[t]].current_directory = <<"/", "a">>

C28_SuccessFlag ==
    chanVariant = "vwt" =>
        \A t \in ChanThreads : \A i \in 1..Len(kresults[t]) :
            LET r == kresults[t][i]
            IN  IF r.exit_code = -1
                THEN r.success = ~r.error
                ELSE r.success = (r.exit_code = 0)

\* C29: with no prompt match and no exit status, vwt fetch_output returns
\* when exactly poll_iterations consecutive polls have delivered no data, and
\* a poll that delivers data restarts the count at zero.
C29_ReturnsAfterPollIterations ==
    [][\A t \in ChanThreads :
          (chanVariant = "vwt" /\ kpc[t] = "fetch" /\ chan_exit[kchan[t]] = -1) =>
             /\ kpc'[t] \in {"loop", "done"} => kiter[t] = poll_iterations
             /\ (kpc'[t] = "fetch" /\ Len(kout'[t]) > Len(kout[t])) => kiter'[t] = 0]_vars

\* C30: a chain executed with create_new_channel = true, also while an open
\* shell channel exists for the host, runs its commands on a channel opened
\* for this call and not on a channel that was open before.
C30_FreshChannelOnRequest ==
    [][\A t \in ChanThreads :
          (kpc[t] = "create_new" /\ kpc'[t] = "loop") =>
             /\ chan_state[kchan'[t]] = "unused"
             /\ chan_state'[kchan'[t]] = "open"]_vars

RECURSIVE Occurrences(_)
\* occurrences of the pattern in the output
Occurrences(out) ==
    IF out = <<>> THEN 0
    ELSE (IF Head(out) = "P" THEN 1 ELSE 0) + Occurrences(Tail(out))

\* C7: while the output of a command is collected, the response of an expect
\* pattern has been sent at most once for each occurrence of the pattern
C7_ExpectOncePerOccurrence ==
    \A t \in ChanThreads : kfired[t] <= Occurrences(kout[t])

\* C18: output collection for one command is capped by the step timeout, and
\* when it ends because the timeout has elapsed it returns what it has
\* accumulated together with a timeout marker in its error output.
C18_TimeoutMarked ==
    [][\A t \in ChanThreads :
          fetch_output_ztw(t, TRUE) => (kpc'[t] = "result" /\ kerr'[t])]_vars

\* C20: execute_interactive_commands is equivalent to execute_chain_commands
\* over the same commands with wait_for_prompt = true for every step: each
\* command it runs waits for the prompt, and each result has the effect on the
\* channel's tracked state that the chain gives it.
C20_InteractiveAsChain ==
    [][\A t \in ChanThreads :
          (kmode[t] = "interactive" /\ Len(kresults'[t]) = Len(kresults[t]) + 1) =>
             /\ kcmds[t][kidx[t]].wait_for_prompt
             /\ channel_info' = ChainDirectory(t, kresults'[t][Len(kresults'[t])])]_vars

(***************************************************************************)
(* SSHManager: one channel manager per host, chains and close_channels     *)
(***************************************************************************)
\* SSHManager.__init__: `self.channel_managers = {}`
InitSess ==
    /\ channel_managers = [h \in ChanHosts |-> 0]
    /\ chain_client = [h \in ChanHosts |-> 0]

PoolKey(h) == ConnectionKey(h, 22, "root", NoOne)

\* _get_or_create_channel_manager(host): the pool is asked for a client only
\* when the host has no manager yet; the manager keeps that client
ManagerFor(h, connected) ==
    LET p0 == [connections |-> connections, clients |-> clients, started |-> {}]
        p == PoolGet(p0, h, connected)
    IN  IF channel_managers[h] # 0
        THEN [pool |-> p0, client |-> channel_managers[h]]
        ELSE [pool |-> p,
              client |-> IF h \in p.started THEN Lookup(p.connections, PoolKey(h)).client
                         ELSE 0]

\* _execute_chain_commands_on_host(host, commands): the manager of the host is
\* fetched or created, and the chain starts on the channel the manager has or
\* opens on its client; an exception (no connection, no shell) gives the
\* single failed result and no command is run
chain_on_host(h, connected, shellOpens) ==
    /\ poolKind = "direct"
    /\ poolLock = NoOne
    /\ chain_client[h] = 0
    /\ LET m == ManagerFor(h, connected)
           usable == m.client # 0 /\ m.pool.clients[m.client] = "alive"
           reuse == usable /\ HasOpenChannel(h)
           open == usable /\ ~HasOpenChannel(h) /\ shellOpens /\ ChannelAvailable
       IN  /\ connections' = m.pool.connections
           /\ clients' = m.pool.clients
           /\ channel_managers' = [channel_managers EXCEPT ![h] = m.client]
           /\ chain_client' = [chain_client EXCEPT ![h] =
                                 IF reuse \/ open THEN m.client ELSE 0]
           /\ IF m.client = 0 THEN UNCHANGED <<channels, channel_info, chan_state>>
              ELSE IF open
              THEN /\ channels' = [channels EXCEPT ![h] = FreshChannel]
                   /\ channel_info' = [channel_info EXCEPT ![h] =
                                         [present |-> TRUE, current_directory |-> NoneDir]]
                   /\ chan_state' = [chan_state EXCEPT ![FreshChannel] = "open"]
              ELSE /\ channels' = AfterGetChannel(h)[1]
                   /\ channel_info' = AfterGetChannel(h)[2]
                   /\ UNCHANGED chan_state
    /\ UNCHANGED <<poolKind, now, poolLock, stop_health_check, jumphost_connection,
                   ppc, preq, attempt, connects>>
    /\ UNCHANGED <<chanVariant, kthreads, kmenu, kchunks, chan_buf, chan_emitted,
                   chan_exit, kpc, khost, kcmds, kidx, kchan, kresults, ksent, kout,
                   kiter, kfired, kerr, kruns, kmode>>
    /\ UNCHANGED <<logVars, mgrVars, trafficVars, startVars, iperfVars, configVars,
                   pidVars, runVars>>

\* the chain of the host returns its results
chain_done(h) ==
    /\ chain_client[h] # 0
    /\ chain_client' = [chain_client EXCEPT ![h] = 0]
    /\ UNCHANGED channel_managers
    /\ UNCHANGED <<startVars, iperfVars, configVars, pidVars, runVars>>
    /\ UNCHANGED notAuxVars

\* the hosts whose channel close_channels(host) closes: the host when it has a
\* manager, every host with a manager when host is None
ClosedHosts(hs) == {h \in hs : channel_managers[h] # 0 /\ channels[h] # 0}

\* a variant that would also close the manager's client and drop its pool entry
close_channels_and_clients(hs) ==
    /\ ClosedHosts(hs) # {}
    /\ chan_state' = [c \in ChannelIds |->
                        IF \E h \in ClosedHosts(hs) : channels[h] = c THEN "closed"
                        ELSE chan_state[c]]
    /\ channels' = [h \in ChanHosts |-> IF h \in ClosedHosts(hs) THEN 0 ELSE channels[h]]
    /\ channel_info' = [h \in ChanHosts |->
                          IF h \in ClosedHosts(hs) /\ chanVariant = "vwt" THEN NoInfo
                          ELSE channel_info[h]]
    /\ clients' = [c \in ClientIds |->
                     IF \E h \in ClosedHosts(hs) : channel_managers[h] = c THEN "closed"
                     ELSE clients[c]]
    /\ connections' = {i \in connections :
                          \A h \in ClosedHosts(hs) : channel_managers[h] # i.client}
    /\ UNCHANGED <<poolKind, now, poolLock, stop_health_check, jumphost_connection,
                   ppc, preq, attempt, connects>>
    /\ UNCHANGED <<chanVariant, kthreads, kmenu, kchunks, chan_buf, chan_emitted,
                   chan_exit, kpc, khost, kcmds, kidx, kchan, kresults, ksent, kout,
                   kiter, kfired, kerr, kruns, kmode>>
    /\ UNCHANGED <<logVars, mgrVars, trafficVars, auxVars>>

\* SSHManager.close_channels(host): ChannelManager.close_channel or
\* close_all_channels of the managers concerned; the channel is closed and
\* forgotten, the manager and its client stay
close_channels(hs) ==
    /\ ClosedHosts(hs) # {}
    /\ chan_state' = [c \in ChannelIds |->
                        IF \E h \in ClosedHosts(hs) : channels[h] = c THEN "closed"
                        ELSE chan_state[c]]
    /\ channels' = [h \in ChanHosts |-> IF h \in ClosedHosts(hs) THEN 0 ELSE channels[h]]
    /\ channel_info' = [h \in ChanHosts |->
                          IF h \in ClosedHosts(hs) /\ chanVariant = "vwt" THEN NoInfo
                          ELSE channel_info[h]]
    /\ UNCHANGED <<chanVariant, kthreads, kmenu, kchunks, chan_buf, chan_emitted,
                   chan_exit, kpc, khost, kcmds, kidx, kchan, kresults, ksent, kout,
                   kiter, kfired, kerr, kruns, kmode>>
    /\ UNCHANGED <<logVars, mgrVars, poolVars, trafficVars, auxVars>>

\* the arguments of close_channels: one host, or None for all of them
CloseTargets == {{h} : h \in ChanHosts} \cup {ChanHosts}

SessEndpoint(h) == [host |-> h, port |-> 22, user |-> "root"]

SessStep ==
    \/ \E h \in ChanHosts, connected, shellOpens \in BOOLEAN :
          chain_on_host(h, connected, shellOpens)
    \/ \E h \in ChanHosts : chain_done(h)
    \/ \E hs \in CloseTargets : close_channels(hs)
    \/ pool_tick
    \/ \E c \in ClientIds : client_dies(c)
    \/ health_check_worker
    \/ clear_pool("t1")
    \/ \E h \in ChanHosts : close_connection("t1", SessEndpoint(h))

\* C35: closing channels (one host's or all) leaves the SSH connections and
\* the connection pool as they were.
C35_CloseChannelsKeepsPool ==
    [][(\E c \in ChannelIds : chan_state[c] = "open" /\ chan_state'[c] = "closed") =>
          (connections' = connections /\ clients' = clients)]_vars

\* a channel has been closed while the pool still holds the alive client of
\* the host's manager
C35_Witness ==
    \E h \in ChanHosts :
       /\ channel_managers[h] # 0
       /\ channels[h] = 0
       /\ \E c \in ChannelIds : chan_state[c] = "closed"
       /\ clients[channel_managers[h]] = "alive"
       /\ \E i \in connections : i.client = channel_managers[h] /\ i.host = h

PacketProtocols == {"tcp", "udp", "icmp"}
NoPackets == [packets_sent |-> 0, packets_received |-> 0, packets_lost |-> 0,
              packet_loss_percent |-> 0, produced |-> FALSE]

\* TrafficTestResult.connections when the handler passes none
NoConnections == [total_connections |-> 0, successful_connections |-> 0,
                  failed_connections |-> 0, produced |-> FALSE]

\* TrafficManager.__init__: no test is running
InitTraffic ==
    /\ probe = NoOne
    /\ probe_pc = "idle"
    /\ probes = 0
    /\ packets_sent = 0
    /\ packets_received = 0
    /\ packets = NoPackets
    /\ connection_times = 0
    /\ connection_metrics = NoConnections

\* `packets_received += 1`
CountReceived(n) == n + 1

\* a probe loop that never counts what it sends
CountSentNever(n) == n
\* `packets_sent += 1`
CountSent(n) == n + 1

\* _calculate_packet_metrics (the loss percentage in whole percents)
CalculatePacketMetrics(sent, received) ==
    LET lost == sent - received
    IN  [packets_sent |-> sent, packets_received |-> received,
         packets_lost |-> lost,
         packet_loss_percent |-> IF sent > 0 THEN (lost * 100) \div sent ELSE 0,
         produced |-> TRUE]

\* _calculate_connection_metrics: every recorded connect time is a successful
\* connection, and failed_connections is the constant 0
CalculateConnectionMetrics(times) ==
    [total_connections |-> times, successful_connections |-> times,
     failed_connections |-> 0, produced |-> TRUE]

\* _run_single_test dispatches to the handler of the protocol, whose counters
\* start at zero
run_single_test(proto) ==
    /\ probe_pc = "idle"
    /\ probe = NoOne
    /\ probe' = proto
    /\ probe_pc' = "loop"
    /\ probes' = 0
    /\ packets_sent' = 0
    /\ packets_received' = 0
    /\ packets' = NoPackets
    /\ connection_times' = 0
    /\ connection_metrics' = NoConnections
    /\ UNCHANGED notTrafficVars

\* _test_tcp_connectivity / _test_udp_connectivity, first half of an iteration:
\* socket, connect (tcp) and send; an exception ends the iteration with
\* nothing counted, otherwise the packet is counted as sent; tcp records the
\* connect time as soon as the connect has succeeded
probe_send(connected, ok) ==
    /\ probe \in {"tcp", "udp"}
    /\ probe_pc = "loop"
    /\ probes < MaxProbes
    /\ IF probe = "tcp" THEN ok => connected ELSE connected = ok
    /\ connection_times' = IF probe = "tcp" /\ connected THEN connection_times + 1
                           ELSE connection_times
    /\ UNCHANGED connection_metrics
    /\ IF ok THEN /\ packets_sent' = CountSent(packets_sent)
                  /\ probe_pc' = "sent"
                  /\ UNCHANGED probes
             ELSE /\ probes' = probes + 1
                  /\ UNCHANGED <<packets_sent, probe_pc>>
    /\ UNCHANGED <<probe, packets_received, packets>>
    /\ UNCHANGED notTrafficVars

\* second half of the iteration: a response is counted as received; a timeout
\* or another exception of the receive ends the iteration without it
probe_recv(ok) ==
    /\ probe \in {"tcp", "udp"}
    /\ probe_pc = "sent"
    /\ packets_received' = IF ok THEN CountReceived(packets_received) ELSE packets_received
    /\ probes' = probes + 1
    /\ probe_pc' = "loop"
    /\ UNCHANGED <<probe, packets_sent, packets, connection_times, connection_metrics>>
    /\ UNCHANGED notTrafficVars

\* _test_icmp_ping, one iteration up to the reply: execute_command raises
\* (counted as sent), returns a failed result (nothing counted), returns
\* output without "time=" (counted as sent), with a latency that does not
\* parse (the exception handler counts it as sent), or with a latency, which
\* is counted as received before it is counted as sent
icmp_ping(outcome) ==
    /\ probe = "icmp"
    /\ probe_pc = "loop"
    /\ probes < MaxProbes
    /\ CASE outcome = "failed" ->
              /\ probes' = probes + 1
              /\ UNCHANGED <<packets_sent, packets_received, probe_pc>>
         [] outcome \in {"raised", "no_time", "bad_time"} ->
              /\ packets_sent' = CountSent(packets_sent)
              /\ probes' = probes + 1
              /\ UNCHANGED <<packets_received, probe_pc>>
         [] outcome = "time" ->
              /\ packets_received' = CountReceived(packets_received)
              /\ probe_pc' = "replied"
              /\ UNCHANGED <<packets_sent, probes>>
    /\ UNCHANGED <<probe, packets, connection_times, connection_metrics>>
    /\ UNCHANGED notTrafficVars

\* _test_icmp_ping, end of an iteration with a reply: `packets_sent += 1`
icmp_counted ==
    /\ probe = "icmp"
    /\ probe_pc = "replied"
    /\ packets_sent' = CountSent(packets_sent)
    /\ probes' = probes + 1
    /\ probe_pc' = "loop"
    /\ UNCHANGED <<probe, packets_received, packets, connection_times, connection_metrics>>
    /\ UNCHANGED notTrafficVars

\* the duration is over: the loop ends and the metrics are computed
probe_finish ==
    /\ probe_pc = "loop"
    /\ probe # NoOne
    /\ packets' = CalculatePacketMetrics(packets_sent, packets_received)
    /\ connection_metrics' = IF probe = "tcp"
                             THEN CalculateConnectionMetrics(connection_times)
                             ELSE NoConnections
    /\ probe_pc' = "idle"
    /\ UNCHANGED <<probe, probes, packets_sent, packets_received, connection_times>>
    /\ UNCHANGED notTrafficVars

TrafficStep ==
    \/ \E proto \in PacketProtocols : run_single_test(proto)
    \/ \E connected, ok \in BOOLEAN : probe_send(connected, ok)
    \/ \E ok \in BOOLEAN : probe_recv(ok)
    \/ \E o \in {"raised", "failed", "no_time", "bad_time", "time"} : icmp_ping(o)
    \/ icmp_counted
    \/ probe_finish

\* C14: every packet metric block has packets_lost = packets_sent -
\* packets_received >= 0, and a loss percentage of 0 when nothing was sent;
\* at the head of every probe loop packets_received <= packets_sent.
C14_LossAccounting ==
    /\ probe_pc = "loop" => packets_received <= packets_sent
    /\ packets.produced =>
          /\ packets.packets_lost = packets.packets_sent - packets.packets_received
          /\ packets.packets_lost >= 0
          /\ packets.packets_sent = 0 => packets.packet_loss_percent = 0

\* C14 witness: a test has produced a block in which every iteration sent a
\* packet, some were answered and some were lost
C14_Witness ==
    /\ packets.produced
    /\ packets.packets_sent = MaxProbes
    /\ packets.packets_received > 0
    /\ packets.packets_lost > 0

\* C32: a failed probe leaves the loop running, and in the result every probe
\* without a reply is counted in connections.failed_connections or in
\* packets.packets_lost.
C32_FailedProbesCounted ==
    [][/\ probes' = probes + 1 => probe_pc' = "loop"
       /\ packets'.produced =>
             connection_metrics'.failed_connections + packets'.packets_lost
                >= probes' - packets'.packets_received]_vars

(***************************************************************************)
(* IperfManager.parse_iperf_file                                           *)
(* Throughputs are in tenths of Gbits/sec, so that the arithmetic on them  *)
(* is exact: a mean is the pair (sum, count) and a percentile is kept      *)
(* multiplied by 100.                                                      *)
(***************************************************************************)
Throughputs == {70, 80, 90}
ExpectedResults == {80, 95}
Tolerances == {0, 10}
\* expected_result=None
NoExpected == -1
percentiles == {10, 25, 50, 75, 90, 99}

NoFile == [throughput_values |-> <<>>, expected_result |-> NoExpected,
           tolerance_pct |-> 10]
NoSummary == [parsed |-> FALSE]

\* nothing has been parsed; the file and the arguments of the call to come
InitIperf(file) ==
    /\ iperf_file = file
    /\ iperf_summary = NoSummary

RECURSIVE Insert(_, _)
\* x put at its place in the ascending sequence sq
Insert(x, sq) ==
    IF sq = <<>> THEN <<x>>
    ELSE IF x <= Head(sq) THEN <<x>> \o sq
    ELSE <<Head(sq)>> \o Insert(x, Tail(sq))

RECURSIVE Ascending(_)
\* the values in ascending order
Ascending(sq) == IF sq = <<>> THEN <<>> ELSE Insert(Head(sq), Ascending(Tail(sq)))

\* a percentile taken over the values in the order of the file
AsGiven(sq) == sq
\* np.percentile takes the values in ascending order
Sorted(sq) == Ascending(sq)

RECURSIVE SeqSum(_)
SeqSum(sq) == IF sq = <<>> THEN 0 ELSE Head(sq) + SeqSum(Tail(sq))

\* np.percentile(values, p), linear interpolation, times 100: with
\* p * (n - 1) = 100 * lo + r the percentile is a[lo] + (r / 100) * (a[lo+1] - a[lo])
\* (indices from 0)
Percentile100(values, p) ==
    LET a == Sorted(values)
        n == Len(a)
        lo == (p * (n - 1)) \div 100
        r == (p * (n - 1)) % 100
    IN  IF r = 0 THEN 100 * a[lo + 1]
        ELSE 100 * a[lo + 1] + r * (a[lo + 2] - a[lo + 1])

\* avg_throughput < expected_result, the mean being sum / n
BelowExpected(sum, n, expected_result) == sum < expected_result * n

\* avg_throughput < expected_result * (1 - tolerance_pct / 100)
BelowLower(sum, n, expected_result, tolerance_pct) ==
    100 * sum < expected_result * (100 - tolerance_pct) * n

\* a test that fails as soon as the average is below the expected result
FailsBelowEither(sum, n, expected_result, tolerance_pct) ==
    \/ BelowExpected(sum, n, expected_result)
    \/ BelowLower(sum, n, expected_result, tolerance_pct)
\* test_result_fail = avg < expected_result and avg < expected_result_lower
TestResultFail(sum, n, expected_result, tolerance_pct) ==
    /\ BelowExpected(sum, n, expected_result)
    /\ BelowLower(sum, n, expected_result, tolerance_pct)

\* the summary parse_iperf_file builds: percentiles and average only when there
\* are interval throughputs, the verdict only when expected_result is given
\* and there is an average
Summary(file) ==
    LET v == file.throughput_values
        judged == file.expected_result # NoExpected /\ v # <<>>
    IN  [parsed |-> TRUE,
         throughput_percentiles |->
             IF v # <<>> THEN [p \in percentiles |-> Percentile100(v, p)] ELSE <<>>,
         average_throughput |->
             IF v # <<>> THEN <<SeqSum(v), Len(v)>> ELSE <<>>,
         judged |-> judged,
         test_result_fail |->
             IF judged
             THEN TestResultFail(SeqSum(v), Len(v), file.expected_result,
                                 file.tolerance_pct)
             ELSE FALSE]

\* parse_iperf_file(file_path, expected_result, tolerance_pct)
parse_iperf_file ==
    /\ ~iperf_summary.parsed
    /\ iperf_summary' = Summary(iperf_file)
    /\ UNCHANGED <<iperf_file, startVars, configVars, pidVars, runVars, sessVars>>
    /\ UNCHANGED notAuxVars

\* the result file is put aside, the next call can be made
iperf_reset ==
    /\ iperf_summary.parsed
    /\ iperf_summary' = NoSummary
    /\ UNCHANGED <<iperf_file, startVars, configVars, pidVars, runVars, sessVars>>
    /\ UNCHANGED notAuxVars

IperfStep ==
    \/ parse_iperf_file
    \/ iperf_reset

\* the interval throughputs of a file, up to MaxIntervals of them
RECURSIVE SeqsUpTo(_, _)
SeqsUpTo(S, n) ==
    IF n = 0 THEN {<<>>}
    ELSE SeqsUpTo(S, n - 1) \cup {Append(sq, x) : sq \in SeqsUpTo(S, n - 1), x \in S}

IperfFiles ==
    [throughput_values : SeqsUpTo(Throughputs, MaxIntervals),
     expected_result : ExpectedResults \cup {NoExpected},
     tolerance_pct : Tolerances]

\* the least and the greatest of the values
MinOf(sq) == CHOOSE x \in {sq[i] : i \in 1..Len(sq)} : \A i \in 1..Len(sq) : x <= sq[i]
MaxOf(sq) == CHOOSE x \in {sq[i] : i \in 1..Len(sq)} : \A i \in 1..Len(sq) : x >= sq[i]

\* C23: when expected_result is given and interval samples exist, the summary
\* has test_result_fail = true exactly when avg < expected and
\* avg < expected * (1 - tolerance/100); an average of 8.0 Gbits/sec with
\* tolerance 10 gives false for expected 8.0 and true for expected 9.5.
C23_FailOnlyBelowTolerance ==
    LET v == iperf_file.throughput_values
        e == iperf_file.expected_result
        t == iperf_file.tolerance_pct
    IN  (iperf_summary.parsed /\ e # NoExpected /\ v # <<>>) =>
           /\ iperf_summary.judged
           /\ iperf_summary.test_result_fail =
                 (SeqSum(v) < e * Len(v) /\ 100 * SeqSum(v) < e * (100 - t) * Len(v))
           /\ (SeqSum(v) = 80 * Len(v) /\ t = 10 /\ e = 80) => ~iperf_summary.test_result_fail
           /\ (SeqSum(v) = 80 * Len(v) /\ t = 10 /\ e = 95) => iperf_summary.test_result_fail

\* C23 witness: a file whose average of 8.0 is below the expected 9.5 by more
\* than the tolerance of 10 percent has been judged a failure
C23_Witness ==
    /\ iperf_summary.parsed
    /\ iperf_summary.judged
    /\ iperf_summary.average_throughput = <<160, 2>>
    /\ iperf_file.expected_result = 95
    /\ iperf_file.tolerance_pct = 10
    /\ iperf_summary.test_result_fail

\* C24: for a non-empty set of interval throughputs
\* min <= p10 <= p25 <= p50 <= p75 <= p90 <= p99 <= max, and there are
\* percentiles only when the set is non-empty.
C24_PercentilesMonotone ==
    LET v == iperf_file.throughput_values
        q == iperf_summary.throughput_percentiles
    IN  iperf_summary.parsed =>
           /\ (v = <<>>) = (q = <<>>)
           /\ v # <<>> =>
                 /\ 100 * MinOf(v) <= q[10]
                 /\ q[10] <= q[25] /\ q[25] <= q[50] /\ q[50] <= q[75]
                 /\ q[75] <= q[90] /\ q[90] <= q[99]
                 /\ q[99] <= 100 * MaxOf(v)

\* C24 witness: percentiles of three intervals that came in descending order,
\* all within the range of the values and not all equal
C24_Witness ==
    /\ iperf_summary.parsed
    /\ iperf_file.throughput_values = <<90, 80, 70>>
    /\ iperf_summary.throughput_percentiles[10] < iperf_summary.throughput_percentiles[99]

(***************************************************************************)
(* Config (ztw_manager/config.py) and the admission semaphore of SSHManager *)
(***************************************************************************)
\* the values the fields of a configuration are drawn from; "" is the empty
\* default of the dataclass, <<>> the empty host list
HostLists == {<<>>, <<"h1">>}
ConfigUsers == {"", "root"}
ConfigPasswords == {"", "secret"}
KeyFiles == {"", "~/id_rsa", "/nokey"}
MaxParallels == {-1, 0, 1, 2}
\* the files os.path.exists finds
ExistingFiles == {"/home/root/id_rsa"}

ConfigValues ==
    [hosts : HostLists, user : ConfigUsers, password : ConfigPasswords,
     key_file : KeyFiles, max_parallel : MaxParallels]

\* the keyword arguments of merge_cli_args; hosts is the list the
\* comma-separated argument splits into
CliArgs ==
    [hosts : HostLists, user : ConfigUsers, password : ConfigPasswords,
     key_file : KeyFiles, max_parallel : MaxParallels]

NoConfig == [state |-> "none"]
NoManager == [made |-> FALSE]

InitConfig ==
    /\ config = NoConfig
    /\ admission = NoManager

\* os.path.expanduser
Expanduser(path) == IF path = "~/id_rsa" THEN "/home/root/id_rsa" ELSE path

\* Config._expand_paths (no jumphost, no known_hosts file)
ExpandPaths(c) ==
    IF c.key_file # "" THEN [c EXCEPT !.key_file = Expanduser(c.key_file)] ELSE c

\* Config._validate without a jumphost: TRUE when no ValueError is raised
Validates(c) ==
    /\ c.hosts # <<>>
    /\ c.user # ""
    /\ ~(c.password = "" /\ c.key_file = "")
    /\ ~(c.key_file # "" /\ c.key_file \notin ExistingFiles)

\* Config(...): the dataclass assigns the fields and __post_init__ expands the
\* paths and validates; a ValueError leaves the caller without an object
Config_post_init(c) ==
    /\ config.state = "none"
    /\ LET e == ExpandPaths(c)
       IN  config' = [state |-> IF Validates(e) THEN "valid" ELSE "rejected",
                      fields |-> e]
    /\ UNCHANGED <<admission, startVars, iperfVars, pidVars, runVars, sessVars>>
    /\ UNCHANGED notAuxVars

\* the overrides of merge_cli_args: only truthy arguments replace a field
Merged(c, kwargs) ==
    [hosts |-> IF kwargs.hosts # <<>> THEN kwargs.hosts ELSE c.hosts,
     user |-> IF kwargs.user # "" THEN kwargs.user ELSE c.user,
     password |-> IF kwargs.password # "" THEN kwargs.password ELSE c.password,
     key_file |-> IF kwargs.key_file # "" THEN kwargs.key_file ELSE c.key_file,
     max_parallel |-> IF kwargs.max_parallel # 0 THEN kwargs.max_parallel
                      ELSE c.max_parallel]

\* Config.merge_cli_args: override, expand, validate again; when the
\* validation raises, the object keeps the merged fields
merge_cli_args(kwargs) ==
    /\ config.state \in {"valid", "raised"}
    /\ admission = NoManager
    /\ LET e == ExpandPaths(Merged(config.fields, kwargs))
       IN  config' = [state |-> IF Validates(e) THEN "valid" ELSE "raised",
                      fields |-> e]
    /\ UNCHANGED <<admission, startVars, iperfVars, pidVars, runVars, sessVars>>
    /\ UNCHANGED notAuxVars

\* SSHManager.__init__ with a validated configuration: ThreadPoolExecutor
\* raises ValueError for max_workers <= 0, before the semaphore is made;
\* otherwise threading.Semaphore(config.max_parallel)
SSHManager_init ==
    /\ config.state = "valid"
    /\ admission = NoManager
    /\ admission' =
          IF config.fields.max_parallel <= 0
          THEN [made |-> TRUE, outcome |-> "ValueError"]
          ELSE [made |-> TRUE, outcome |-> "created",
                max_workers |-> config.fields.max_parallel,
                permits |-> config.fields.max_parallel]
    /\ UNCHANGED <<config, startVars, iperfVars, pidVars, runVars, sessVars>>
    /\ UNCHANGED notAuxVars

ConfigStep ==
    \/ \E c \in ConfigValues : Config_post_init(c)
    \/ \E kwargs \in CliArgs : merge_cli_args(kwargs)
    \/ SSHManager_init

\* C25: every configuration that passed validation, at construction or after
\* merge_cli_args, has exactly one of password and key_file present and
\* max_parallel >= 1, and the admission semaphore never has zero permits.
C25_ValidatedConfigIsSound ==
    /\ config.state = "valid" =>
          /\ (config.fields.password # "") # (config.fields.key_file # "")
          /\ config.fields.max_parallel >= 1
    /\ (admission.made /\ admission.outcome = "created") => admission.permits >= 1

(***************************************************************************)
(* IperfManager: start and stop of client and server by PID file           *)
(***************************************************************************)
IperfRoles == {"client", "server"}

\* nothing has been started on the remote hosts
InitPid ==
    /\ iperf_proc = [r \in IperfRoles |-> "none"]
    /\ pid_file = [r \in IperfRoles |-> FALSE]
    /\ stops = [r \in IperfRoles |-> 0]

\* start_iperf_server / start_iperf_client, the remote command
\* `nohup iperf3 ... & echo $! > pid_file`
start_iperf(r) ==
    /\ iperf_proc[r] # "running"
    /\ iperf_proc' = [iperf_proc EXCEPT ![r] = "running"]
    /\ pid_file' = [pid_file EXCEPT ![r] = TRUE]
    /\ stops' = [stops EXCEPT ![r] = 0]
    /\ UNCHANGED <<startVars, iperfVars, configVars, runVars, sessVars>>
    /\ UNCHANGED notAuxVars

\* the iperf3 process ends by itself: the client after its duration, either
\* of them on an error
iperf_exits(r) ==
    /\ iperf_proc[r] = "running"
    /\ iperf_proc' = [iperf_proc EXCEPT ![r] = "exited"]
    /\ UNCHANGED <<pid_file, stops>>
    /\ UNCHANGED <<startVars, iperfVars, configVars, runVars, sessVars>>
    /\ UNCHANGED notAuxVars

\* `kill -9 $(cat pid_file)`: succeeds only on a process that is there
KillSucceeds(r) == iperf_proc[r] = "running"

\* the left side of `&& rm -f pid_file`
RemovesPidFile(r) == KillSucceeds(r)

\* stop_iperf_server / stop_iperf_client, the remote command
\* `if [ -f pid_file ]; then kill -9 $(cat pid_file) && rm -f pid_file; fi`
stop_iperf(r) ==
    /\ stops[r] < MaxStops
    /\ stops' = [stops EXCEPT ![r] = @ + 1]
    /\ IF pid_file[r]
       THEN /\ iperf_proc' = [iperf_proc EXCEPT ![r] =
                                 IF KillSucceeds(r) THEN "killed" ELSE @]
            /\ pid_file' = [pid_file EXCEPT ![r] = ~RemovesPidFile(r)]
       ELSE UNCHANGED <<iperf_proc, pid_file>>
    /\ UNCHANGED <<startVars, iperfVars, configVars, runVars, sessVars>>
    /\ UNCHANGED notAuxVars

StopStep ==
    \/ \E r \in IperfRoles : start_iperf(r)
    \/ \E r \in IperfRoles : iperf_exits(r)
    \/ \E r \in IperfRoles : stop_iperf(r)

\* C33: after a Stop the PID file is absent, whether the process was running
\* or had already exited, and a second Stop changes nothing.
C33_StopCleansPidFile ==
    [][\A r \in IperfRoles :
          /\ stops'[r] = stops[r] + 1 => ~pid_file'[r]
          /\ (stops[r] >= 1 /\ stops'[r] = stops[r] + 1) =>
                (iperf_proc'[r] = iperf_proc[r] /\ pid_file'[r] = pid_file[r])]_vars

(***************************************************************************)
(* TrafficManager.run_traffic_test and the send_traffic facade of HostWorkload *)
(***************************************************************************)
RunHosts == {"h1", "h2"}
RunPorts == {"80", "443"}
PortLists == {<<"80">>, <<"443">>, <<"80", "443">>}

\* a dict is the sequence of its items <<key, value>> in insertion order;
\* the test pairs of a call: dicts {source_host: target_host} of one or two items
PairDicts ==
    {<<<<s, t>>>> : s \in RunHosts, t \in RunHosts}
        \cup {<<<<"h1", t>>, <<"h2", u>>>> : t \in RunHosts, u \in RunHosts}
PairLists ==
    {<<d>> : d \in PairDicts}
        \cup {<<<<<<s, t>>>>, e>> : s \in RunHosts, t \in RunHosts, e \in PairDicts}

NoCall == [kind |-> "none"]
NoResult == [test_id |-> <<>>, source_host |-> NoOne, target_host |-> NoOne,
             target_port |-> NoOne]

InitRun ==
    /\ traffic_call = NoCall
    /\ traffic_results = <<>>
    /\ traffic_returned = NoResult

\* f"{test_id_base}_{idx}_{k}" with the indexes of enumerate
TestId(idx, k) == <<idx - 1, k - 1>>

\* the TrafficTestResult of one test, whether _run_single_test returned it or
\* raised: it carries the arguments of the test
TestResult(id, item, port) ==
    [test_id |-> id, source_host |-> item[1], target_host |-> item[2],
     target_port |-> port]

\* the results of run_traffic_test: `results[test_id] = result` for every
\* pair idx, every item of the pair and every port k, so that of the items of
\* one pair the last one written stays under the id
RunTrafficTest(test_pairs, target_ports) ==
    LET ids == {TestId(idx, k) : idx \in 1..Len(test_pairs), k \in 1..Len(target_ports)}
    IN  [id \in ids |->
            LET pair == test_pairs[id[1] + 1]
            IN  TestResult(id, pair[Len(pair)], target_ports[id[2] + 1])]

\* run_traffic_test(test_pairs, test_config) called by the program itself
run_traffic_test(test_pairs, target_ports) ==
    /\ traffic_call.kind = "none"
    /\ traffic_call' = [kind |-> "direct", test_pairs |-> test_pairs,
                        target_ports |-> target_ports]
    /\ traffic_results' = RunTrafficTest(test_pairs, target_ports)
    /\ UNCHANGED traffic_returned
    /\ UNCHANGED <<startVars, iperfVars, configVars, pidVars, sessVars>>
    /\ UNCHANGED notAuxVars

\* the test pair send_traffic builds: one dict with three items
FacadePair(host, target_host, port) ==
    <<<<"source_host", host>>, <<"target_host", target_host>>, <<"target_port", port>>>>

\* HostWorkload.send_traffic(protocol, target, port): run_traffic_test with
\* the pair above and target_ports=[port]; the first of the results is returned
send_traffic(host, target_host, port) ==
    /\ traffic_call.kind = "none"
    /\ traffic_call' = [kind |-> "facade", host |-> host,
                        target_host |-> target_host, port |-> port]
    /\ LET res == RunTrafficTest(<<FacadePair(host, target_host, port)>>, <<port>>)
       IN  /\ traffic_results' = res
           /\ traffic_returned' = res[TestId(1, 1)]
    /\ UNCHANGED <<startVars, iperfVars, configVars, pidVars, sessVars>>
    /\ UNCHANGED notAuxVars

\* the caller has its results; the next call may come
traffic_done ==
    /\ traffic_call.kind # "none"
    /\ traffic_call' = NoCall
    /\ traffic_results' = <<>>
    /\ traffic_returned' = NoResult
    /\ UNCHANGED <<startVars, iperfVars, configVars, pidVars, sessVars>>
    /\ UNCHANGED notAuxVars

RunStep ==
    \/ \E test_pairs \in PairLists, target_ports \in PortLists :
          run_traffic_test(test_pairs, target_ports)
    \/ \E host \in RunHosts, target_host \in RunHosts, port \in RunPorts :
          send_traffic(host, target_host, port)
    \/ traffic_done

\* the (pair, item, port) positions of the tuples a direct call asks for
Requested(c) ==
    {<<idx, j, k>> : idx \in 1..Len(c.test_pairs), j \in 1..2, k \in 1..Len(c.target_ports)}
        \cap {x \in (1..2) \X (1..2) \X (1..2) : x[2] <= Len(c.test_pairs[x[1]])}

\* C34: a traffic test call returns exactly one result per requested
\* (source, target, port) tuple, each under an id of its own and carrying that
\* tuple, and send_traffic returns the result of its own (host, target, port).
C34_OneResultPerTuple ==
    /\ traffic_call.kind = "direct" =>
          /\ Cardinality(DOMAIN traffic_results) = Cardinality(Requested(traffic_call))
          /\ \A x \in Requested(traffic_call) :
                \E id \in DOMAIN traffic_results :
                   /\ traffic_results[id].source_host = traffic_call.test_pairs[x[1]][x[2]][1]
                   /\ traffic_results[id].target_host = traffic_call.test_pairs[x[1]][x[2]][2]
                   /\ traffic_results[id].target_port = traffic_call.target_ports[x[3]]
    /\ traffic_call.kind = "facade" =>
          /\ Cardinality(DOMAIN traffic_results) = 1
          /\ traffic_returned.source_host = traffic_call.host
          /\ traffic_returned.target_host = traffic_call.target_host
          /\ traffic_returned.target_port = traffic_call.port

(***************************************************************************)
(* Specifications                                                          *)
(***************************************************************************)
\* LogCapture with both implementations; the other components stay constructed
\* a channel manager nobody calls
InitChanIdle == InitChan("vwt", {}, {}, {})
InitAuxIdle == InitIperf(NoFile) /\ InitConfig /\ InitPid /\ InitRun /\ InitSess
InitAux == InitStart(TRUE) /\ InitAuxIdle

InitLogSpec ==
    /\ (\E v \in {"vwt", "ztw"} : InitLog(v)) /\ InitMgr(FALSE) /\ InitPool("direct")
    /\ InitChanIdle
    /\ InitTraffic /\ InitAux
NextLog == LogStep
SpecLog == InitLogSpec /\ [][NextLog]_vars

\* SSHManager fan-out, with and without a metrics attribute
InitMgrSpec ==
    /\ InitLog("vwt") /\ (\E m \in BOOLEAN : InitMgr(m)) /\ InitPool("direct")
    /\ InitChanIdle
    /\ InitTraffic /\ (\E enabled \in BOOLEAN : InitStart(enabled)) /\ InitAuxIdle
NextMgr == MgrStep
SpecMgr == InitMgrSpec /\ [][NextMgr]_vars

\* the pool, without and with a jumphost, used by concurrent callers
InitPoolSpec ==
    /\ InitLog("vwt") /\ InitMgr(FALSE) /\ (\E k \in {"direct", "jumphost"} : InitPool(k))
    /\ InitChanIdle
    /\ InitTraffic /\ InitAux
NextPool == PoolStep
SpecPool == InitPoolSpec /\ [][NextPool]_vars

\* chains of plain commands, submitted by two threads to either variant
InitChanSpec ==
    /\ InitLog("vwt") /\ InitMgr(FALSE) /\ InitPool("direct") /\ InitTraffic /\ InitAux
    /\ \E v \in {"vwt", "ztw"} : InitChan(v, ChanThreads, {ListChain}, {"x"})
NextChan == ChanStep
SpecChan == InitChanSpec /\ [][NextChan]_vars

\* chains of cd commands, submitted by one thread
InitDirSpec ==
    /\ InitLog("vwt") /\ InitMgr(FALSE) /\ InitPool("direct") /\ InitTraffic /\ InitAux
    /\ \E v \in {"vwt", "ztw"} :
          InitChan(v, {"c1"}, {CdChain, CdBackChain, RelativeCdChain, CdListChain}, {"x"})
NextDir == ChanStep
SpecDir == InitDirSpec /\ [][NextDir]_vars

\* commands with expect patterns, prompts and cleaning, submitted by one thread
InitFetchSpec ==
    /\ InitLog("vwt") /\ InitMgr(FALSE) /\ InitPool("direct") /\ InitTraffic /\ InitAux
    /\ \E v \in {"vwt", "ztw"} : InitChan(v, {"c1"}, {SudoChain, CleanChain}, Chunks)
NextFetch == ChanStep
SpecFetch == InitFetchSpec /\ [][NextFetch]_vars

\* traffic tests of the packet-counting protocols
InitTrafficSpec ==
    /\ InitLog("vwt") /\ InitMgr(FALSE) /\ InitPool("direct")
    /\ InitChanIdle
    /\ InitTraffic /\ InitAux
NextTraffic == TrafficStep
SpecTraffic == InitTrafficSpec /\ [][NextTraffic]_vars

\* cd commands submitted by one thread as a chain or as an interactive session
InitInteractiveSpec ==
    /\ InitLog("vwt") /\ InitMgr(FALSE) /\ InitPool("direct") /\ InitTraffic /\ InitAux
    /\ \E v \in {"vwt", "ztw"} : InitChan(v, {"c1"}, {CdChain, RelativeCdChain}, {"x"})
NextInteractive == InteractiveStep
SpecInteractive == InitInteractiveSpec /\ [][NextInteractive]_vars

\* iperf3 result files parsed with and without an expected result
InitIperfSpec ==
    /\ InitLog("vwt") /\ InitMgr(FALSE) /\ InitPool("direct")
    /\ InitChanIdle
    /\ InitTraffic /\ InitStart(TRUE) /\ InitConfig /\ InitPid /\ InitRun /\ InitSess
    /\ \E file \in IperfFiles : InitIperf(file)
NextIperf == IperfStep
SpecIperf == InitIperfSpec /\ [][NextIperf]_vars

\* configurations built, merged with command-line arguments and handed to a manager
InitConfigSpec ==
    /\ InitLog("vwt") /\ InitMgr(FALSE) /\ InitPool("direct")
    /\ InitChanIdle
    /\ InitTraffic /\ InitAux
NextConfig == ConfigStep
SpecConfig == InitConfigSpec /\ [][NextConfig]_vars

\* iperf3 clients and servers started, ending and stopped
InitStopSpec ==
    /\ InitLog("vwt") /\ InitMgr(FALSE) /\ InitPool("direct")
    /\ InitChanIdle
    /\ InitTraffic /\ InitAux
NextStop == StopStep
SpecStop == InitStopSpec /\ [][NextStop]_vars

\* traffic test calls, direct and through the per-host facade
InitRunSpec ==
    /\ InitLog("vwt") /\ InitMgr(FALSE) /\ InitPool("direct")
    /\ InitChanIdle
    /\ InitTraffic /\ InitAux
NextRun == RunStep
SpecRun == InitRunSpec /\ [][NextRun]_vars

\* chains and close_channels of the SSH manager over the direct pool
InitSessSpec ==
    /\ InitLog("vwt") /\ InitMgr(FALSE) /\ InitPool("direct")
    /\ InitChanIdle
    /\ InitTraffic /\ InitAux
NextSess == SessStep
SpecSess == InitSessSpec /\ [][NextSess]_vars

\* the capture threads with the blocking read of the remote tail; every
\* thread that can take a step is scheduled eventually, while the callers
\* and the remote side are free to do nothing
InitCaptureSpec ==
    /\ (\E v \in {"vwt", "ztw"} : InitLog(v)) /\ InitMgr(FALSE) /\ InitPool("direct")
    /\ InitChanIdle
    /\ InitTraffic /\ InitAux
NextCapture == CaptureStep
SpecCapture ==
    /\ InitCaptureSpec /\ [][NextCapture]_vars
    /\ \A h \in LogHosts : WF_vars(CaptureThreadStep(h))

====
